---- MODULE Spec2Model ----
(***************************************************************************)
(* Echo Garden: audio-feature -> emotion -> procedural-growth pipeline.    *)
(*                                                                         *)
(* Numbers.  The program computes in IEEE doubles.  The model computes in  *)
(* exact rationals <<n, d>> (d > 0, lowest terms), so every comparison     *)
(* against a threshold and every product is the mathematical one.          *)
(***************************************************************************)
EXTENDS Integers, Sequences, FiniteSets, TLC

\* ------------------------------------------------------------------------
\* Exact rational arithmetic
\* ------------------------------------------------------------------------
RECURSIVE GCD(_, _)
GCD(a, b) == IF b = 0 THEN a ELSE GCD(b, a % b)

Abs(x) == IF x < 0 THEN -x ELSE x

R(n, d) ==
  LET g == GCD(Abs(n), Abs(d))
      s == IF d < 0 THEN -1 ELSE 1
  IN  <<(s * n) \div g, (s * d) \div g>>

LCM(a, b) == (a \div GCD(a, b)) * b

Zero == <<0, 1>>
One  == <<1, 1>>

RAdd(x, y) ==
  LET l == LCM(x[2], y[2])
  IN  R(x[1] * (l \div x[2]) + y[1] * (l \div y[2]), l)

RNeg(x) == <<-x[1], x[2]>>
RSub(x, y) == RAdd(x, RNeg(y))

RMul(x, y) ==
  LET g1 == GCD(Abs(x[1]), y[2])
      g2 == GCD(Abs(y[1]), x[2])
      a  == IF g1 = 0 THEN 1 ELSE g1
      b  == IF g2 = 0 THEN 1 ELSE g2
  IN  R((x[1] \div a) * (y[1] \div b), (x[2] \div b) * (y[2] \div a))

RDiv(x, y) == RMul(x, IF y[1] < 0 THEN <<-y[2], -y[1]>> ELSE <<y[2], y[1]>>)

RLt(x, y) ==
  LET l == LCM(x[2], y[2])
  IN  x[1] * (l \div x[2]) < y[1] * (l \div y[2])

RLe(x, y) == ~RLt(y, x)
RGt(x, y) == RLt(y, x)
RGe(x, y) == ~RLt(x, y)

RMin(x, y) == IF RLt(y, x) THEN y ELSE x
RMax(x, y) == IF RLt(x, y) THEN y ELSE x
RAbs(x) == <<Abs(x[1]), x[2]>>

RECURSIVE RPow(_, _)
RPow(x, k) == IF k = 0 THEN One ELSE RMul(x, RPow(x, k - 1))

\* ------------------------------------------------------------------------
\* L-system (utils/lsystem.ts)
\*
\* A string is a sequence of one-character strings.  A point is the sum of
\* the displacement terms <<dir, len>> walked from the origin (the empty
\* sequence is (0,0,0)); a direction is the sequence of rotations
\* <<axis, degrees>> applied to the initial heading (0,1,0).
\* ------------------------------------------------------------------------
TREE_PRESETS == [
  oak |->
    [axiom |-> <<"F">>,
     rules |-> << [symbol |-> "F", probability |-> One,
                   replacement |-> <<"F","F","+","[","+","F","-","F","-","F","]","-","[","-","F","+","F","+","F","]">>] >>,
     angle |-> <<45, 2>>, length |-> <<2, 1>>, lengthFactor |-> <<7, 10>>, widthFactor |-> <<7, 10>>,
     iterations |-> 2, randomness |-> <<1, 10>>],
  willow |->
    [axiom |-> <<"F">>,
     rules |-> << [symbol |-> "F", probability |-> One,
                   replacement |-> <<"F","[","+","F","]","F","[","-","F","]","[","F","]">>] >>,
     angle |-> <<35, 1>>, length |-> <<3, 2>>, lengthFactor |-> <<3, 4>>, widthFactor |-> <<13, 20>>,
     iterations |-> 3, randomness |-> <<3, 20>>],
  pine |->
    [axiom |-> <<"F">>,
     rules |-> << [symbol |-> "F", probability |-> One,
                   replacement |-> <<"F","F","-","[","-","F","+","F","+","F","]","+","[","+","F","-","F","-","F","]">>] >>,
     angle |-> <<25, 1>>, length |-> <<5, 2>>, lengthFactor |-> <<3, 5>>, widthFactor |-> <<3, 4>>,
     iterations |-> 2, randomness |-> <<1, 20>>],
  bonsai |->
    [axiom |-> <<"F">>,
     rules |-> << [symbol |-> "F", probability |-> One,
                   replacement |-> <<"F","[","+","F","]","[","-","F","]","F","[","-","F","]","[","+","F","]","F">>] >>,
     angle |-> <<30, 1>>, length |-> <<4, 5>>, lengthFactor |-> <<13, 20>>, widthFactor |-> <<3, 5>>,
     iterations |-> 2, randomness |-> <<1, 5>>],
  thorny |->
    [axiom |-> <<"F">>,
     rules |-> << [symbol |-> "F", probability |-> One,
                   replacement |-> <<"F","[","+","F","]","[","-","-","F","]","F","[","-","F","]","[","+","+","F","]","F">>] >>,
     angle |-> <<45, 1>>, length |-> <<6, 5>>, lengthFactor |-> <<11, 20>>, widthFactor |-> <<4, 5>>,
     iterations |-> 2, randomness |-> <<1, 4>>],
  crystal |->
    [axiom |-> <<"F">>,
     rules |-> << [symbol |-> "F", probability |-> One,
                   replacement |-> <<"F","[","+","F","+","F","]","[","-","F","-","F","]","F">>] >>,
     angle |-> <<60, 1>>, length |-> <<3, 2>>, lengthFactor |-> <<7, 10>>, widthFactor |-> <<9, 10>>,
     iterations |-> 2, randomness |-> <<0, 1>>] ]

PresetNames == DOMAIN TREE_PRESETS

\* The k-th value (k = 1, 2, ...) of the stream seededRandom(seed) returns.
\* The program iterates s := sin(s * 9999) * 10000 and returns the fractional
\* part; the model keeps what callers rely on: a value in [0,1) that is a
\* function of the seed and of the number of calls made so far.
seededRandom(seed, k) == R((seed * 7 + k * 3) % 10, 10)

\* rule.probability of a rule that declares none (undefined)
NoProbability == <<0, 0>>

\* Rule selection for one character; calls = stream values consumed so far.
RECURSIVE PickRule(_, _, _, _, _)
PickRule(matching, i, roll, cumulative, selected) ==
  IF i > Len(matching) THEN selected
  ELSE LET p   == matching[i].probability
           w   == IF p = NoProbability \/ p = Zero THEN R(1, Len(matching)) ELSE p
           cum == RAdd(cumulative, w)
       IN  IF RLt(roll, cum) THEN matching[i]
           ELSE PickRule(matching, i + 1, roll, cum, selected)

\* One rewriting pass over current.  The character at position i consumes a
\* stream value exactly when more than one rule matches it, so the number of
\* values consumed before position i is the number of such earlier positions.
Matching(config, char) == SelectSeq(config.rules, LAMBDA r : r.symbol = char)

CallsBefore(config, current, i) ==
  Cardinality({j \in 1..(i - 1) : Len(Matching(config, current[j])) > 1})

\* One character copied through unrewritten
RewrittenUnchanged(config, seed, current, calls, i) == <<current[i]>>

Rewritten(config, seed, current, calls, i) ==
  LET char     == current[i]
      matching == Matching(config, char)
  IN  IF Len(matching) > 0
      THEN IF Len(matching) > 1
           THEN PickRule(matching, 1,
                         seededRandom(seed, calls + CallsBefore(config, current, i) + 1),
                         Zero, matching[1]).replacement
           ELSE matching[1].replacement
      ELSE <<char>>

RECURSIVE Concat(_, _, _, _, _, _)
Concat(config, seed, current, calls, lo, hi) ==
  IF lo > hi THEN <<>>
  ELSE IF lo = hi THEN Rewritten(config, seed, current, calls, lo)
  ELSE LET mid == (lo + hi) \div 2
       IN  Concat(config, seed, current, calls, lo, mid)
             \o Concat(config, seed, current, calls, mid + 1, hi)

RewritePass(config, seed, current, calls) ==
  <<Concat(config, seed, current, calls, 1, Len(current)),
    calls + CallsBefore(config, current, Len(current) + 1)>>

RECURSIVE Iterate(_, _, _, _, _)
Iterate(config, seed, current, i, calls) ==
  IF i >= config.iterations THEN current
  ELSE LET pass == RewritePass(config, seed, current, calls)
       IN  Iterate(config, seed, pass[1], i + 1, pass[2])

generateLSystem(config, seed) == Iterate(config, seed, config.axiom, 0, 0)

\* Turtle state at the top of the interpreter loop.
TurtleInit(config, baseWidth) ==
  [pos |-> <<>>, dir |-> <<>>, width |-> baseWidth, length |-> config.length,
   depth |-> 0, stack |-> <<>>, branches |-> <<>>, calls |-> 0]

Rotate(dir, axis, angle) == Append(dir, <<axis, angle>>)

\* case '[': push the turtle state, then taper width and length.
PushState(t, config) ==
  [t EXCEPT !.stack = Append(t.stack,
                        [pos |-> t.pos, dir |-> t.dir,
                         width |-> t.width, depth |-> t.depth]),
            !.width = RMul(t.width, config.widthFactor),
            !.length = RMul(t.length, config.lengthFactor),
            !.depth = t.depth + 1]

\* case ']' with an empty stack taken as a return to the root state
PopStateToRoot(t, config) ==
  IF t.stack = <<>> THEN [t EXCEPT !.pos = <<>>, !.dir = <<>>, !.depth = 0]
  ELSE LET state == t.stack[Len(t.stack)]
       IN  [t EXCEPT !.stack = SubSeq(t.stack, 1, Len(t.stack) - 1),
                     !.pos = state.pos,
                     !.dir = state.dir,
                     !.width = state.width,
                     !.depth = state.depth,
                     !.length = RMul(config.length,
                                     RPow(config.lengthFactor, state.depth))]

\* case ']': pop the saved state, if any, and recompute the length.
PopStateKeepsWidth(t, config) ==
  IF t.stack = <<>> THEN t
  ELSE LET state == t.stack[Len(t.stack)]
       IN  [t EXCEPT !.stack = SubSeq(t.stack, 1, Len(t.stack) - 1),
                     !.pos = state.pos,
                     !.dir = state.dir,
                     !.depth = state.depth,
                     !.length = RMul(config.length,
                                     RPow(config.lengthFactor, state.depth))]

PopState(t, config) ==
  IF t.stack = <<>> THEN t
  ELSE LET state == t.stack[Len(t.stack)]
       IN  [t EXCEPT !.stack = SubSeq(t.stack, 1, Len(t.stack) - 1),
                     !.pos = state.pos,
                     !.dir = state.dir,
                     !.width = state.width,
                     !.depth = state.depth,
                     !.length = RMul(config.length,
                                     RPow(config.lengthFactor, state.depth))]

\* One iteration of the interpreter loop on character char: two stream
\* values are drawn for every character, whatever the character is.
TurtleStep(t, char, config, seed) ==
  LET r1 == seededRandom(seed, t.calls + 1)
      r2 == seededRandom(seed, t.calls + 2)
      half == R(1, 2)
      randomAngle  == RMul(config.angle,
                        RAdd(One, RMul(RMul(RSub(r1, half), config.randomness), <<2, 1>>)))
      randomLength == RMul(t.length,
                        RAdd(One, RMul(RSub(r2, half), config.randomness)))
      u == [t EXCEPT !.calls = t.calls + 2]
  IN  CASE char = "F" ->
             LET end == Append(t.pos, <<t.dir, randomLength>>)
             IN  [u EXCEPT !.branches = Append(t.branches,
                               [start |-> t.pos, end |-> end,
                                width |-> t.width, depth |-> t.depth]),
                           !.pos = end]
        [] char = "+" -> [u EXCEPT !.dir = Rotate(t.dir, "z", randomAngle)]
        [] char = "-" -> [u EXCEPT !.dir = Rotate(t.dir, "z", RNeg(randomAngle))]
        [] char = "&" -> [u EXCEPT !.dir = Rotate(t.dir, "x", randomAngle)]
        [] char = "^" -> [u EXCEPT !.dir = Rotate(t.dir, "x", RNeg(randomAngle))]
        [] char = "\\" -> [u EXCEPT !.dir = Rotate(t.dir, "y", randomAngle)]
        [] char = "/" -> [u EXCEPT !.dir = Rotate(t.dir, "y", RNeg(randomAngle))]
        [] char = "|" -> [u EXCEPT !.dir = Rotate(t.dir, "z", <<180, 1>>)]
        [] char = "[" -> PushState(u, config)
        [] char = "]" -> PopState(u, config)
        [] OTHER -> u

\* The turtle states at the top of the loop and after each character:
\* element 1 is the initial turtle, element k + 1 the turtle after k characters.
RECURSIVE TurtleTrace(_, _, _, _, _)
TurtleTrace(str, config, seed, i, acc) ==
  IF i > Len(str) THEN acc
  ELSE TurtleTrace(str, config, seed, i + 1,
                   Append(acc, TurtleStep(acc[Len(acc)], str[i], config, seed)))

interpretTrace(str, config, baseWidth, seed) ==
  TurtleTrace(str, config, seed, 1, <<TurtleInit(config, baseWidth)>>)

interpretLSystem(str, config, baseWidth, seed) ==
  LET tr == interpretTrace(str, config, baseWidth, seed)
  IN  tr[Len(tr)].branches

\* Bounds of the L-system inputs
MaxLen == 5
Alphabet == {"F", "+", "[", "]"}
BaseWidths == {R(3, 10), R(1, 2)}
Seeds == {1, 2}

RECURSIVE StringsUpTo(_)
StringsUpTo(n) ==
  IF n = 0 THEN {<<>>}
  ELSE LET shorter == StringsUpTo(n - 1)
       IN  shorter \cup {Append(s, c) : s \in shorter, c \in Alphabet}

\* ------------------------------------------------------------------------
\* Emotion classifier (engine/SentimentEngine.ts)
\* ------------------------------------------------------------------------
\* Key order of the scores object: Object.keys / Object.entries iterate in it.
EmotionOrder == <<"calm", "anger", "joy", "sadness", "thought", "neutral">>
Emotions == {EmotionOrder[i] : i \in 1..Len(EmotionOrder)}

Pct(n) == R(n, 100)
When(cond, w) == IF cond THEN w ELSE Zero

\* === CALM Detection ===
CalmScoreNoFlux(f) ==
  RAdd(When(RLt(f.energy, Pct(30)) /\ RLt(f.zeroCrossingRate, Pct(30)), Pct(40)),
       When(RGt(f.mids, f.bass) /\ RGt(f.mids, f.treble), Pct(20)))

CalmScore(f) ==
  RAdd(RAdd(When(RLt(f.energy, Pct(30)) /\ RLt(f.zeroCrossingRate, Pct(30)), Pct(40)),
            When(RGt(f.mids, f.bass) /\ RGt(f.mids, f.treble), Pct(20))),
       When(RLt(f.spectralFlux, Pct(20)), Pct(20)))

\* === ANGER Detection ===
AngerScoreNoFlux(f) ==
  RAdd(RAdd(When(RGt(f.energy, Pct(60)), Pct(30)),
            When(RGt(f.bass, Pct(50)) /\ RGt(f.zeroCrossingRate, Pct(40)), Pct(30))),
       When(RLt(f.spectralCentroid, Pct(30)) /\ RGt(f.energy, Pct(50)), Pct(20)))

AngerScore(f) ==
  RAdd(RAdd(When(RGt(f.energy, Pct(60)), Pct(30)),
            When(RGt(f.bass, Pct(50)) /\ RGt(f.zeroCrossingRate, Pct(40)), Pct(30))),
       RAdd(When(RGt(f.spectralFlux, Pct(50)), Pct(30)),
            When(RLt(f.spectralCentroid, Pct(30)) /\ RGt(f.energy, Pct(50)), Pct(20))))

\* === JOY Detection ===
JoyScore(f) ==
  RAdd(RAdd(When(RGt(f.energy, Pct(40)) /\ RLt(f.energy, Pct(80)), Pct(20)),
            When(RGt(f.spectralCentroid, Pct(50)), Pct(30))),
       RAdd(When(RGt(f.highMids, Pct(40)) /\ RGt(f.treble, Pct(30)), Pct(30)),
            When(f.beat, Pct(20))))

\* === SADNESS Detection ===
SadnessScore(f) ==
  RAdd(RAdd(When(RLt(f.energy, Pct(40)) /\ RGt(f.bass, f.treble), Pct(30)),
            When(RLt(f.spectralCentroid, Pct(30)), Pct(30))),
       RAdd(When(RLt(f.zeroCrossingRate, Pct(20)), Pct(20)),
            When(RLt(f.bpm, <<80, 1>>), Pct(20))))

\* === THOUGHT Detection ===
ThoughtScore(f) ==
  RAdd(RAdd(When(RGt(f.energy, Pct(20)) /\ RLt(f.energy, Pct(50)), Pct(30)),
            When(RGt(f.mids, Pct(30)) /\ RGt(f.lowMids, Pct(30)), Pct(30))),
       When(RLt(f.spectralFlux, Pct(30)) /\ RGt(f.spectralFlux, Pct(10)), Pct(20)))

\* Largest value of a score table
MaxOf(scores) ==
  CHOOSE m \in {scores[k] : k \in DOMAIN scores} :
    \A k \in DOMAIN scores : RLe(scores[k], m)

\* === NEUTRAL === default when nothing stands out
NeutralScoreNever(maxScore) == Zero

NeutralScore(maxScore) == IF RLt(maxScore, Pct(30)) THEN Pct(50) ELSE Zero

RECURSIVE SumOver(_, _)
SumOver(scores, i) ==
  IF i > Len(EmotionOrder) THEN Zero
  ELSE RAdd(scores[EmotionOrder[i]], SumOver(scores, i + 1))

\* The argmax loop: starts from ('neutral', 0) and replaces on strictly greater.
RECURSIVE PrimaryLoop(_, _, _, _)
PrimaryLoop(scores, i, primary, maxVal) ==
  IF i > Len(EmotionOrder) THEN <<primary, maxVal>>
  ELSE LET e == EmotionOrder[i]
       IN  IF RGt(scores[e], maxVal)
           THEN PrimaryLoop(scores, i + 1, e, scores[e])
           ELSE PrimaryLoop(scores, i + 1, primary, maxVal)

\* sortedScores[1] of the descending sort (the second largest, with multiplicity)
SecondOf(scores) ==
  LET top  == MaxOf(scores)
      tops == {k \in DOMAIN scores : scores[k] = top}
      rest == [k \in (DOMAIN scores) \ tops |-> scores[k]]
  IN  IF Cardinality(tops) >= 2 \/ DOMAIN rest = {} THEN top ELSE MaxOf(rest)

\* Normalize scores, find the primary emotion, calculate the confidence.
Normalize(raw, total) == [e \in Emotions |-> RDiv(raw[e], total)]

Summarize(raw, scores, pm, second) ==
  [op |-> "detected",
   accumulators |-> raw,
   primary |-> pm[1],
   intensity |-> pm[2],
   confidence |-> RSub(MaxOf(scores), IF second = Zero THEN Zero ELSE second),
   scores |-> scores]

Classify(raw, scores) ==
  Summarize(raw, scores, PrimaryLoop(scores, 1, "neutral", Zero), SecondOf(scores))

WithTotal(raw, sum) == Classify(raw, Normalize(raw, IF sum = Zero THEN One ELSE sum))

WithNeutral(raw) == WithTotal(raw, SumOver(raw, 1))

Accumulate(acc) == WithNeutral([acc EXCEPT !["neutral"] = NeutralScore(MaxOf(acc))])

detectEmotion(f) ==
  Accumulate([e \in Emotions |->
                CASE e = "calm"    -> CalmScore(f)
                  [] e = "anger"   -> AngerScore(f)
                  [] e = "joy"     -> JoyScore(f)
                  [] e = "sadness" -> SadnessScore(f)
                  [] e = "thought" -> ThoughtScore(f)
                  [] OTHER         -> Zero])

\* Input frames: each field ranges over values on both sides of every
\* threshold the classifier compares it with.
EnergyVals   == {Pct(5), Pct(25), Pct(35), Pct(45), Pct(55), Pct(70), Pct(80)}
ZcrVals      == {Pct(0), Pct(25), Pct(35), Pct(50)}
BassVals     == {Pct(0), Pct(70)}
MidsVals     == {Pct(0), Pct(50)}
TrebleVals   == {Pct(0), Pct(50)}
LowMidsVals  == {Pct(0), Pct(50)}
HighMidsVals == {Pct(0), Pct(50)}
FluxVals     == {Pct(0), Pct(15), Pct(25), Pct(40), Pct(60)}
CentroidVals == {Pct(0), Pct(40), Pct(60)}
BpmVals      == {<<60, 1>>, <<120, 1>>}

Frames ==
  [bass : BassVals, lowMids : LowMidsVals, mids : MidsVals, highMids : HighMidsVals,
   treble : TrebleVals, energy : EnergyVals, spectralCentroid : CentroidVals,
   spectralFlux : FluxVals, zeroCrossingRate : ZcrVals, bpm : BpmVals, beat : BOOLEAN]

\* getEmptyFeatures(): the extractor's silent frame
EmptyFeatures ==
  [bass |-> Zero, lowMids |-> Zero, mids |-> Zero, highMids |-> Zero, treble |-> Zero,
   energy |-> Zero, spectralCentroid |-> Zero, spectralFlux |-> Zero,
   zeroCrossingRate |-> Zero, bpm |-> <<120, 1>>, beat |-> FALSE]

\* ------------------------------------------------------------------------
\* EmotionSmoother (engine/SentimentEngine.ts)
\* ------------------------------------------------------------------------
createEmotionState(emotion) ==
  [primary |-> emotion, intensity |-> One, confidence |-> One,
   scores |-> [e \in Emotions |-> IF e = emotion THEN One ELSE Zero]]

\* current += (target - current) * smoothingFactor
SmoothTowardSignSlip(current, target, factor) ==
  RAdd(current, RMul(RSub(current, target), factor))

SmoothToward(current, target, factor) ==
  RAdd(current, RMul(RSub(target, current), factor))

\* EmotionSmoother.update(newState): the returned (and stored) current state
SmootherUpdated(current, newState, factor) ==
  LET scores == [e \in Emotions |->
                   SmoothToward(current.scores[e], newState.scores[e], factor)]
  IN  [primary |-> PrimaryLoop(scores, 1, "neutral", Zero)[1],
       intensity |-> SmoothToward(current.intensity, newState.intensity, factor),
       confidence |-> SmoothToward(current.confidence, newState.confidence, factor),
       scores |-> scores]

\* The EmotionState part of what detectEmotion returns
AsEmotionState(d) ==
  [primary |-> d.primary, intensity |-> d.intensity,
   confidence |-> d.confidence, scores |-> d.scores]

\* Raw states fed to the smoother: the classifier's output on four frames
\* (calm/sadness mix, pure anger, neutral fallback, joy/thought mix).
AngerFrame ==
  [EmptyFeatures EXCEPT !.energy = Pct(80), !.bass = Pct(70),
                        !.zeroCrossingRate = Pct(50), !.spectralFlux = Pct(60),
                        !.spectralCentroid = Pct(40)]
NoRuleFrame ==
  [EmptyFeatures EXCEPT !.energy = Pct(5), !.zeroCrossingRate = Pct(50),
                        !.spectralFlux = Pct(40), !.spectralCentroid = Pct(40)]
JoyThoughtFrame ==
  [EmptyFeatures EXCEPT !.energy = Pct(45), !.zeroCrossingRate = Pct(35),
                        !.spectralFlux = Pct(40), !.spectralCentroid = Pct(60)]
SmootherFrames ==
  {[EmptyFeatures EXCEPT !.energy = Pct(5)], AngerFrame, NoRuleFrame, JoyThoughtFrame}
RawStates == {AsEmotionState(detectEmotion(f)) : f \in SmootherFrames}

\* Smoothing factors: the constructor default, the one useAudio passes, a large one
SmoothingFactors == {R(1, 10), R(3, 20), R(1, 2)}
MaxUpdates == 4

\* ------------------------------------------------------------------------
\* AudioAnalyzer (engine/AudioAnalyzer.ts)
\*
\* What the analyser node delivers in one poll is an input: the band
\* averages, RMS energy and spectral descriptors computed from its buffers.
\* Clock readings (performance.now()) are whole milliseconds.
\* ------------------------------------------------------------------------
EnergyWindow == 43
BpmWindow == 10
MinBeatInterval == 200

\* push, then shift once the window is exceeded
PushBounded(history, x, limit) ==
  LET pushed == Append(history, x)
  IN  IF Len(pushed) > limit THEN SubSeq(pushed, 2, Len(pushed)) ELSE pushed

\* reduce((a, b) => a + b, 0) over positions lo..hi
RECURSIVE SeqSum(_, _, _)
SeqSum(q, lo, hi) ==
  IF lo > hi THEN Zero
  ELSE IF lo = hi THEN q[lo]
  ELSE LET mid == (lo + hi) \div 2
       IN  RAdd(SeqSum(q, lo, mid), SeqSum(q, mid + 1, hi))

Average(q) == RDiv(SeqSum(q, 1, Len(q)), <<Len(q), 1>>)

\* (now - this.lastBeatTime) > minBeatInterval
BeatGapElapsedIgnored(now, last) == TRUE

BeatGapElapsed(now, last) == now - last > MinBeatInterval

\* instantBpm >= 40 && instantBpm <= 200
BpmAcceptedClosed(instantBpm) ==
  RGe(instantBpm, <<40, 1>>) /\ RLe(instantBpm, <<200, 1>>)

\* instantBpm > 40 && instantBpm < 200
BpmAccepted(instantBpm) ==
  RGt(instantBpm, <<40, 1>>) /\ RLt(instantBpm, <<200, 1>>)

\* detectBeat(energy) at clock reading now, on detector state d =
\* [energyHistory, lastBeatTime, bpmHistory]; returns the new detector state
\* and the {beat, bpm} result.
detectBeat(d, energy, now) ==
  LET history    == PushBounded(d.energyHistory, energy, EnergyWindow)
      threshold  == RMul(Average(history), R(13, 10))
      isBeat     == RGt(energy, threshold) /\ BeatGapElapsed(now, d.lastBeatTime)
      instantBpm == R(60000, now - d.lastBeatTime)
      bpmHistory ==
        IF isBeat /\ d.lastBeatTime > 0 /\ BpmAccepted(instantBpm)
        THEN PushBounded(d.bpmHistory, instantBpm, BpmWindow)
        ELSE d.bpmHistory
  IN  [energyHistory |-> history,
       lastBeatTime |-> IF isBeat THEN now ELSE d.lastBeatTime,
       bpmHistory |-> bpmHistory,
       beat |-> isBeat,
       bpm |-> IF Len(bpmHistory) > 0 THEN Average(bpmHistory) ELSE <<120, 1>>]

\* new AudioAnalyzer(): the beat detector's fields
NewDetector == [energyHistory |-> <<>>, lastBeatTime |-> 0, bpmHistory |-> <<>>]

\* The detector fields of a detectBeat result
DetectorOf(b) == [energyHistory |-> b.energyHistory, lastBeatTime |-> b.lastBeatTime,
                  bpmHistory |-> b.bpmHistory]

\* An analyzer polled every 250 ms, silence and full energy in turn, for n
\* rounds: it heard a beat every 500 ms, the latest one at 500 * n
BeatPeriod == 500
Heard(n) ==
  [energyHistory |-> [i \in 1..(2 * n) |-> IF i % 2 = 0 THEN One ELSE Zero],
   lastBeatTime |-> BeatPeriod * n,
   bpmHistory |-> [i \in 1..(IF n - 1 > BpmWindow THEN BpmWindow ELSE n - 1) |->
                     R(60000, BeatPeriod)]]
\* One more such round on detector d, ending at clock reading now
HeardRound(d, now) ==
  DetectorOf(detectBeat(DetectorOf(detectBeat(d, Zero, now - BeatPeriod \div 2)), One, now))
\* Rounds heard before the calls that are followed: one beat (BPM window
\* empty), ten beats (nine values), eleven beats (the window is full)
HeardRounds == {1, BpmWindow, BpmWindow + 1}
HeardDetector == [n \in HeardRounds |-> Heard(n)]

\* getEmptyFeatures()
getEmptyFeatures == [EmptyFeatures EXCEPT !.beat = FALSE] @@ [silence |-> TRUE]

\* The frame getFeatures() assembles from one poll m and the beat result b
AssembleFeatures(m, b) ==
  [bass |-> m.bass, lowMids |-> m.lowMids, mids |-> m.mids, highMids |-> m.highMids,
   treble |-> m.treble, energy |-> m.energy, spectralCentroid |-> m.spectralCentroid,
   spectralFlux |-> m.spectralFlux, zeroCrossingRate |-> m.zeroCrossingRate,
   silence |-> RLt(m.energy, Pct(5)), bpm |-> b.bpm, beat |-> b.beat]

\* Polls: silence, a quiet spectrum at half energy, a loud full spectrum
Measurement(e, band) ==
  [bass |-> band, lowMids |-> band, mids |-> band, highMids |-> band, treble |-> band,
   energy |-> e, spectralCentroid |-> band, spectralFlux |-> band,
   zeroCrossingRate |-> band]
Measurements == {Measurement(Zero, Zero), Measurement(R(1, 2), Zero),
                 Measurement(One, R(4, 5))}
ClockSteps == {100, 200, 201}
MaxCalls == 3

\* ------------------------------------------------------------------------
\* AudioAnalyzer objects and the Web Audio objects they hold
\* ------------------------------------------------------------------------
\* new AudioAnalyzer(): the three node fields are null (0), otherwise they
\* hold the index of an AudioContext / source node / AnalyserNode.  awaiting
\* is the position of a running initFromMicrophone(): suspended at its await.
\* disposedWhileAwaiting remembers a dispose() made during that suspension,
\* elementInit an earlier initFromAudioElement() call.
NewAnalyzer ==
  [audioContext |-> 0, source |-> 0, analyser |-> 0, isInitialized |-> FALSE,
   detector |-> NewDetector, awaiting |-> FALSE, disposedWhileAwaiting |-> FALSE,
   elementInit |-> FALSE]

\* The browser's objects: a context is running or closed, a source node is
\* connected or not; closes / disconnects count the close() / disconnect()
\* calls received (0, 1, or 2 for "more than one").
NewHeap == [contexts |-> <<>>, sources |-> <<>>, analysers |-> <<>>, bound |-> {}]

Once(n) == IF n = 0 THEN 1 ELSE 2

\* setupAnalyser() on analyzer a
setupAnalyser(a, heap) ==
  IF a.audioContext = 0 \/ a.source = 0 THEN [analyzer |-> a, heap |-> heap]
  ELSE [analyzer |-> [a EXCEPT !.analyser = Len(heap.analysers) + 1,
                               !.isInitialized = TRUE],
        heap |-> [heap EXCEPT !.analysers = Append(@, [disconnects |-> 0])]]

\* initFromMicrophone() after getUserMedia resolved
MicrophoneGranted(a, heap) ==
  LET context == Len(heap.contexts) + 1
      source  == Len(heap.sources) + 1
      h == [heap EXCEPT
              !.contexts = Append(@, [state |-> "running", closes |-> 0]),
              !.sources = Append(@, [context |-> context, input |-> "microphone",
                                     connected |-> TRUE, disconnects |-> 0])]
  IN  setupAnalyser([a EXCEPT !.audioContext = context, !.source = source,
                              !.awaiting = FALSE], h)

\* initFromAudioElement(audioElement).  createMediaElementSource throws when
\* the element already feeds a source node; the context has been replaced by
\* then.  failed = the call rejected.
initFromAudioElement(a, heap, audioElement) ==
  LET context == Len(heap.contexts) + 1
      h1 == [heap EXCEPT !.contexts = Append(@, [state |-> "running", closes |-> 0])]
      a1 == [a EXCEPT !.audioContext = context, !.elementInit = TRUE]
  IN  IF audioElement \in heap.bound
      THEN [analyzer |-> a1, heap |-> h1, failed |-> TRUE]
      ELSE LET source == Len(heap.sources) + 1
               h2 == [h1 EXCEPT
                        !.sources = Append(@, [context |-> context, input |-> audioElement,
                                               connected |-> TRUE, disconnects |-> 0]),
                        !.bound = @ \cup {audioElement}]
           IN  setupAnalyser([a1 EXCEPT !.source = source], h2)
                 @@ [failed |-> FALSE]

\* dispose()
dispose(a, heap) ==
  LET h1 == IF a.source # 0
            THEN [heap EXCEPT !.sources[a.source].connected = FALSE,
                              !.sources[a.source].disconnects = Once(@)]
            ELSE heap
      h2 == IF a.analyser # 0
            THEN [h1 EXCEPT !.analysers[a.analyser].disconnects = Once(@)]
            ELSE h1
      h3 == IF a.audioContext # 0
            THEN [h2 EXCEPT !.contexts[a.audioContext].state = "closed",
                            !.contexts[a.audioContext].closes = Once(@)]
            ELSE h2
  IN  [analyzer |-> [a EXCEPT !.isInitialized = FALSE,
                              !.disposedWhileAwaiting = @ \/ a.awaiting],
       heap |-> h3]

\* getFeatures() that only looks at the analyser field
getFeaturesAnalyserOnly(a, m, now) ==
  IF a.analyser = 0
  THEN [analyzer |-> a, frame |-> getEmptyFeatures]
  ELSE LET b == detectBeat(a.detector, m.energy, now)
       IN  [analyzer |-> [a EXCEPT !.detector = [energyHistory |-> b.energyHistory,
                                                 lastBeatTime |-> b.lastBeatTime,
                                                 bpmHistory |-> b.bpmHistory]],
            frame |-> AssembleFeatures(m, b)]

\* getFeatures() on analyzer a, the analyser node delivering poll m
getFeatures(a, m, now) ==
  IF ~a.isInitialized \/ a.analyser = 0
  THEN [analyzer |-> a, frame |-> getEmptyFeatures]
  ELSE LET b == detectBeat(a.detector, m.energy, now)
       IN  [analyzer |-> [a EXCEPT !.detector = [energyHistory |-> b.energyHistory,
                                                 lastBeatTime |-> b.lastBeatTime,
                                                 bpmHistory |-> b.bpmHistory]],
            frame |-> AssembleFeatures(m, b)]

\* An analyzer holds live audio resources: an open context with a connected source
HoldsLiveAudio(a, heap) ==
  /\ a.audioContext # 0
  /\ heap.contexts[a.audioContext].state = "running"
  /\ a.source # 0
  /\ heap.sources[a.source].connected

AudioElements == {"track1", "track2"}
LifecyclePolls == {Measurement(R(1, 2), Zero), Measurement(One, R(4, 5))}
MaxContexts == 2

\* ------------------------------------------------------------------------
\* Audio-visual mapping layer (hooks/useAudioVisualMapping.ts)
\* ------------------------------------------------------------------------
\* A rule; threshold and smoothing are "none" when the rule does not set
\* them, duration is 0 when it does not set one.
Rule(source, target, effect, multiplier, duration, invert) ==
  [source |-> source, target |-> target, effect |-> effect,
   multiplier |-> multiplier, threshold |-> "none", duration |-> duration,
   smoothing |-> "none", invert |-> invert]

DEFAULT_MAPPINGS == <<
  Rule("bass", "trunk", "thickness", <<3, 2>>, 0, FALSE),
  Rule("bass", "roots", "scale", <<13, 10>>, 0, FALSE),
  Rule("lowMids", "branches", "count", <<6, 5>>, 0, FALSE),
  Rule("mids", "leaves", "density", <<13, 10>>, 0, FALSE),
  Rule("highMids", "flowers", "bloom", <<2, 1>>, 0, FALSE),
  Rule("treble", "particles", "intensity", <<3, 1>>, 0, FALSE),
  Rule("beat", "camera", "shake", <<1, 1>>, 100, FALSE),
  Rule("beat", "flowers", "pulse", <<3, 2>>, 150, FALSE),
  Rule("beat", "leaves", "sway", <<2, 1>>, 200, FALSE),
  Rule("energy", "light", "intensity", <<3, 2>>, 0, FALSE),
  Rule("energy", "fog", "opacity", <<1, 2>>, 0, TRUE),
  Rule("silence", "growth", "speed", <<3, 2>>, 0, FALSE),
  Rule("spectralCentroid", "light", "color", <<1, 1>>, 0, FALSE),
  Rule("spectralFlux", "particles", "speed", <<2, 1>>, 0, FALSE) >>

\* MAPPING_PRESETS.responsive (also the hook's defaults) and .subtle; neither
\* passes custom rules
MappingOptions == {[smoothing |-> R(1, 10), sensitivity |-> One, customMappings |-> <<>>],
                   [smoothing |-> R(1, 5), sensitivity |-> R(1, 2), customMappings |-> <<>>]}

\* MAPPING_PRESETS.musical and .ambient, with their custom rules
MusicalPreset ==
  [smoothing |-> R(3, 20), sensitivity |-> R(3, 2),
   customMappings |-> << Rule("beat", "flowers", "pulse", <<5, 2>>, 200, FALSE),
                         Rule("bass", "trunk", "scale", <<9, 5>>, 0, FALSE) >>]
AmbientPreset ==
  [smoothing |-> R(3, 10), sensitivity |-> R(7, 10),
   customMappings |-> << Rule("energy", "particles", "intensity", <<1, 1>>, 0, FALSE),
                         Rule("mids", "leaves", "sway", <<1, 2>>, 0, FALSE) >>]

\* The hook's default options with caller-supplied rules: a threshold with
\* and without invert, and a source name that is not an AudioFeature
GatedMappings == <<
  [Rule("bass", "trunk", "scale", <<2, 1>>, 0, TRUE) EXCEPT !.threshold = R(3, 4)],
  [Rule("mids", "color", "brightness", <<1, 1>>, 0, FALSE) EXCEPT !.threshold = R(3, 4)],
  Rule("loudness", "sky", "brightness", <<1, 1>>, 0, FALSE),
  Rule("loudness", "sky", "opacity", <<1, 1>>, 0, TRUE) >>
GatedOptions == [smoothing |-> R(1, 10), sensitivity |-> One,
                 customMappings |-> GatedMappings]
CustomOptions == {MusicalPreset, AmbientPreset, GatedOptions}

\* allMappings = [...DEFAULT_MAPPINGS, ...customMappings]
allMappings(customMappings) == DEFAULT_MAPPINGS \o customMappings

\* DEFAULT_SETTINGS.audioSensitivity
DefaultAudioSensitivity == R(5, 2)

RuleKey(mapping) == <<mapping.source, mapping.target, mapping.effect>>
OutputKey(mapping) == <<mapping.target, mapping.effect>>

\* useAudioFeatures() when the store holds no frame and the selector has no
\* fallback (hooks/useGarden.ts)
NoFeatures == [absent |-> TRUE]

\* getFeatureValue(feature); audioFeatures is the store's frame
getFeatureValue(audioFeatures, feature) ==
  IF audioFeatures = NoFeatures THEN Zero ELSE
  CASE feature = "bass" -> audioFeatures.bass
    [] feature = "lowMids" -> audioFeatures.lowMids
    [] feature = "mids" -> audioFeatures.mids
    [] feature = "highMids" -> audioFeatures.highMids
    [] feature = "treble" -> audioFeatures.treble
    [] feature = "energy" -> audioFeatures.energy
    [] feature = "beat" -> IF audioFeatures.beat THEN One ELSE Zero
    [] feature = "silence" -> IF RLt(audioFeatures.energy, Pct(5)) THEN One ELSE Zero
    [] feature = "spectralCentroid" -> audioFeatures.spectralCentroid
    [] feature = "spectralFlux" -> audioFeatures.spectralFlux
    [] OTHER -> Zero

\* THREE.MathUtils.lerp(x, y, t) = (1 - t) * x + t * y
LerpSwapped(x, y, t) == RAdd(RMul(RSub(One, t), y), RMul(t, x))

Lerp(x, y, t) == RAdd(RMul(RSub(One, t), x), RMul(t, y))

NewSlot == [currentValue |-> Zero, targetValue |-> Zero, velocity |-> Zero,
            lastBeatTime |-> 0, accumulated |-> Zero]

\* processMapping with the inversion applied before the threshold
processMappingInvertFirst(mapping, slot, now, audioFeatures, options, audioSensitivity) ==
  LET raw      == getFeatureValue(audioFeatures, mapping.source)
      inverted == IF mapping.invert THEN RSub(One, raw) ELSE raw
      featureValue == IF mapping.threshold # "none" /\ RLt(inverted, mapping.threshold)
                      THEN Zero ELSE inverted
      targetValue  == RMul(RMul(RMul(featureValue, mapping.multiplier),
                                options.sensitivity), audioSensitivity)
      effectiveSmoothing == IF mapping.smoothing # "none" THEN mapping.smoothing
                            ELSE options.smoothing
  IN  [slot EXCEPT !.targetValue = targetValue,
                   !.currentValue = Lerp(slot.currentValue, targetValue, effectiveSmoothing)]

\* processMapping(mapping, delta) on the rule's slot, at clock reading now
processMapping(mapping, slot, now, audioFeatures, options, audioSensitivity) ==
  LET raw      == getFeatureValue(audioFeatures, mapping.source)
      gated    == IF mapping.threshold # "none" /\ RLt(raw, mapping.threshold)
                  THEN Zero ELSE raw
      featureValue == IF mapping.invert THEN RSub(One, gated) ELSE gated
      targetValue  == RMul(RMul(RMul(featureValue, mapping.multiplier),
                                options.sensitivity), audioSensitivity)
      lastBeatTime == IF mapping.source = "beat" /\ RGt(featureValue, R(1, 2))
                      THEN now ELSE slot.lastBeatTime
      elapsed  == now - lastBeatTime
      target   == IF mapping.duration # 0 /\ lastBeatTime > 0
                  THEN IF elapsed < mapping.duration
                       THEN RMul(targetValue,
                                 RSub(One, R(elapsed, mapping.duration)))
                       ELSE Zero
                  ELSE targetValue
      effectiveSmoothing == IF mapping.smoothing # "none" THEN mapping.smoothing
                            ELSE options.smoothing
  IN  [slot EXCEPT !.lastBeatTime = lastBeatTime,
                   !.targetValue = target,
                   !.currentValue = Lerp(slot.currentValue, target, effectiveSmoothing)]

\* output[key] = value, dropping what the key already held
AddToOutputOverwrite(output, out, value) ==
  [k \in DOMAIN output \cup {out} |-> IF k = out THEN value ELSE output[k]]

\* output[key] = (output[key] ?? 0) + value
AddToOutput(output, out, value) ==
  [k \in DOMAIN output \cup {out} |->
     IF k = out
     THEN RAdd(IF out \in DOMAIN output THEN output[out] ELSE Zero, value)
     ELSE output[k]]

\* Writing a processed slot so that every slot of the same source takes over
\* its last-beat timestamp
StoreSlotPerSource(slots, key, new) ==
  [k \in DOMAIN slots \cup {key} |->
     IF k = key THEN new
     ELSE IF k[1] = key[1] THEN [slots[k] EXCEPT !.lastBeatTime = new.lastBeatTime]
     ELSE slots[k]]

\* stateRef.current[key] after processMapping wrote the rule's slot
StoreSlot(slots, key, new) ==
  [k \in DOMAIN slots \cup {key} |-> IF k = key THEN new ELSE slots[k]]

\* update(delta): the rules are processed in table order; each reads and
\* writes the slot of its key and adds its value to its output key.
RECURSIVE UpdateLoop(_, _, _, _, _, _, _, _)
UpdateLoop(mappings, i, slots, output, now, audioFeatures, options, audioSensitivity) ==
  IF i > Len(mappings) THEN [slots |-> slots, output |-> output]
  ELSE LET mapping == mappings[i]
           key  == RuleKey(mapping)
           slot == IF key \in DOMAIN slots THEN slots[key] ELSE NewSlot
           new  == processMapping(mapping, slot, now, audioFeatures, options,
                                  audioSensitivity)
       IN  UpdateLoop(mappings, i + 1,
                      StoreSlot(slots, key, new),
                      AddToOutput(output, OutputKey(mapping), new.currentValue),
                      now, audioFeatures, options, audioSensitivity)

\* update(delta) with the smoothing factors scaled to the frame time, as a
\* frame-rate independent layer would have them
updateScaledByDelta(delta, customMappings, slots, now, audioFeatures, options, audioSensitivity) ==
  UpdateLoop(allMappings(customMappings), 1, slots, <<>>, now, audioFeatures,
             [options EXCEPT !.smoothing = RMul(@, RMul(delta, <<60, 1>>))],
             audioSensitivity)

\* update(delta): delta is handed to processMapping, which never reads it;
\* the time base is the clock reading `now`
update(delta, customMappings, slots, now, audioFeatures, options, audioSensitivity) ==
  UpdateLoop(allMappings(customMappings), 1, slots, <<>>, now, audioFeatures, options,
             audioSensitivity)

\* useFrame deltas in seconds: a repeated frame and a frame at 60 fps
MapDeltas == {Zero, R(1, 60)}

\* Frames the store can hold for the mapping layer: no beat / beat, with the
\* bands at 0 or 1
StoreFrame(level, beat) ==
  [bass |-> level, lowMids |-> level, mids |-> level, highMids |-> level,
   treble |-> level, energy |-> level, spectralCentroid |-> level,
   spectralFlux |-> level, zeroCrossingRate |-> level, bpm |-> <<120, 1>>,
   beat |-> beat, silence |-> RLt(level, Pct(5))]
MappingFrames == {StoreFrame(Zero, FALSE), StoreFrame(One, TRUE), StoreFrame(One, FALSE)}
\* useAudioFeatures(): the store's frame, DEFAULT_AUDIO_FEATURES when it holds none
DEFAULT_AUDIO_FEATURES == StoreFrame(Zero, FALSE)
MapClockSteps == {50, 150}
MaxMapUpdates == 4

\* getValue(target, effect) on outputRef.current
getValue(output, target, effect) ==
  IF <<target, effect>> \in DOMAIN output THEN output[<<target, effect>>] ELSE Zero

\* Frames given to a hook that has custom rules: also half-level bands and
\* no frame at all
CustomFrames == {NoFeatures, StoreFrame(R(1, 2), FALSE), StoreFrame(One, TRUE),
                 StoreFrame(Zero, FALSE)}
MaxCustomUpdates == 2
\* How many update() calls a hook is followed for
UpdateLimit(options) ==
  IF options.customMappings = <<>> THEN MaxMapUpdates ELSE MaxCustomUpdates

\* ------------------------------------------------------------------------
\* Growth animation (hooks/useGrowthAnimation.ts, flora/types.ts) and the
\* analysis loop that feeds the store (hooks/useAudio.ts)
\* ------------------------------------------------------------------------
DEFAULT_GROWTH ==
  [germination |-> One, stemGrowth |-> One, branching |-> One, leafing |-> One,
   flowering |-> Zero, withering |-> Zero, audioInfluence |-> One]

GrowthFields == DOMAIN DEFAULT_GROWTH

DEFAULT_GROWTH_CONFIG ==
  [baseSpeed |-> R(5, 100), audioSpeedMultiplier |-> <<2, 1>>,
   germinationDuration |-> <<2, 1>>, stemGrowthDuration |-> <<4, 1>>,
   branchingDuration |-> <<3, 1>>, leafingDuration |-> <<3, 1>>,
   floweringDuration |-> <<5, 1>>,
   bassInfluence |-> R(8, 10), midsInfluence |-> R(6, 10),
   trebleInfluence |-> R(4, 10), energyInfluence |-> One,
   bloomOnBeat |-> TRUE, silenceGrowth |-> TRUE]

\* interpolateGrowth(from, to, progress): lerp(a, b) = a + (b - a) * progress
interpolateGrowth(from, to, progress) ==
  [k \in GrowthFields |-> RAdd(from[k], RMul(RSub(to[k], from[k]), progress))]

\* getGrowthSpeed() with the silence boost applied at energy 0 only
getGrowthSpeedBoostAtZero(config, audioFeatures, primary) ==
  LET energy  == audioFeatures.energy
      audio   == RMul(config.baseSpeed, RAdd(One, RMul(energy, config.energyInfluence)))
      boosted == IF config.silenceGrowth /\ energy = Zero
                 THEN RMul(audio, R(3, 2)) ELSE audio
  IN  CASE primary = "calm"  -> RMul(boosted, R(8, 10))
        [] primary = "anger" -> RMul(boosted, R(13, 10))
        [] primary = "joy"   -> RMul(boosted, R(12, 10))
        [] OTHER -> boosted

\* getGrowthSpeed()
getGrowthSpeed(config, audioFeatures, primary) ==
  LET energy  == audioFeatures.energy
      audio   == RMul(config.baseSpeed, RAdd(One, RMul(energy, config.energyInfluence)))
      boosted == IF config.silenceGrowth /\ RLt(energy, R(1, 10))
                 THEN RMul(audio, R(3, 2)) ELSE audio
  IN  CASE primary = "calm"  -> RMul(boosted, R(8, 10))
        [] primary = "anger" -> RMul(boosted, R(13, 10))
        [] primary = "joy"   -> RMul(boosted, R(12, 10))
        [] OTHER -> boosted

\* A stage's schedule value measured from growth time 0 instead of the
\* stage's start
StageProgressFromZero(time, start, duration) ==
  IF RGt(time, start) THEN RMin(One, RDiv(time, duration)) ELSE Zero

\* A stage's schedule value: 0 until its start, then linear, capped at 1
StageProgress(time, start, duration) ==
  IF RGt(time, start) THEN RMin(One, RDiv(RSub(time, start), duration)) ELSE Zero

\* min(1, v * (1 + band * influence))
Boosted(v, band, influence) == RMin(One, RMul(v, RAdd(One, RMul(band, influence))))

\* The stage targets updateGrowth writes to targetGrowthRef before the audio
\* modulation is applied
ScheduledTargets(config, time, energy) ==
  LET germinationEnd == config.germinationDuration
      stemEnd   == RAdd(germinationEnd, config.stemGrowthDuration)
      branchEnd == RAdd(stemEnd, config.branchingDuration)
      leafEnd   == RAdd(branchEnd, config.leafingDuration)
  IN  [germination |-> RMin(One, RDiv(time, germinationEnd)),
       stemGrowth  |-> StageProgress(time, germinationEnd, config.stemGrowthDuration),
       branching   |-> StageProgress(time, stemEnd, config.branchingDuration),
       leafing     |-> StageProgress(time, branchEnd, config.leafingDuration),
       flowering   |-> StageProgress(time, leafEnd, config.floweringDuration),
       withering   |-> Zero,
       audioInfluence |-> energy]

\* The bloom test without the lastBeatRef edge check
BloomTriggeredWhileHeld(config, flowering, beat, lastBeat) ==
  config.bloomOnBeat /\ beat /\ RGt(flowering, R(1, 2))

\* config.bloomOnBeat && beat && !lastBeatRef.current && target.flowering > 0.5
BloomTriggered(config, flowering, beat, lastBeat) ==
  config.bloomOnBeat /\ beat /\ ~lastBeat /\ RGt(flowering, R(1, 2))

\* updateGrowth(delta): the refs after the call
updateGrowth(config, refs, audioFeatures, primary, delta) ==
  LET speed == getGrowthSpeed(config, audioFeatures, primary)
      time  == RAdd(refs.time, RMul(delta, speed))
      scheduled == ScheduledTargets(config, time, audioFeatures.energy)
      flowering == Boosted(scheduled.flowering, audioFeatures.treble, config.trebleInfluence)
      bloom  == BloomTriggered(config, flowering, audioFeatures.beat, refs.lastBeat)
      target ==
        [scheduled EXCEPT
           !.stemGrowth = Boosted(@, audioFeatures.bass, config.bassInfluence),
           !.branching  = Boosted(@, audioFeatures.mids, config.midsInfluence),
           !.leafing    = Boosted(@, audioFeatures.mids, config.midsInfluence),
           !.flowering  = IF bloom THEN One ELSE flowering]
  IN  [time |-> time, target |-> target, lastBeat |-> audioFeatures.beat,
       growth |-> interpolateGrowth(refs.growth, target, R(1, 10))]

\* skipToStage(stage): the new timeRef, or "keep" for a stage the switch
\* does not list
skipToStage(config, stage) ==
  CASE stage = "germination" -> Zero
    [] stage = "stemGrowth"  -> config.germinationDuration
    [] stage = "branching"   -> RAdd(config.germinationDuration, config.stemGrowthDuration)
    [] stage = "leafing"     -> RAdd(RAdd(config.germinationDuration,
                                          config.stemGrowthDuration),
                                     config.branchingDuration)
    [] stage = "flowering"   -> RAdd(RAdd(RAdd(config.germinationDuration,
                                               config.stemGrowthDuration),
                                          config.branchingDuration),
                                     config.leafingDuration)
    [] OTHER -> "keep"

\* The analysis loop's adjustedFeatures
ApplySensitivity(f, audioSensitivity) ==
  [f EXCEPT !.bass = RMul(@, audioSensitivity), !.lowMids = RMul(@, audioSensitivity),
            !.mids = RMul(@, audioSensitivity), !.highMids = RMul(@, audioSensitivity),
            !.treble = RMul(@, audioSensitivity), !.energy = RMul(@, audioSensitivity)]

DEFAULT_EMOTION ==
  [primary |-> "neutral", intensity |-> Zero, confidence |-> Zero,
   scores |-> [e \in Emotions |-> IF e = "neutral" THEN One ELSE Zero]]

\* settings.audioSensitivity: the two DEFAULT_SETTINGS values
AudioSensitivities == {One, DefaultAudioSensitivity}

\* Frames getFeatures() hands to the analysis loop, every band in [0,1]:
\* a faint hum, a moderate tone, a loud full spectrum, a soft bright beat
AnalyzerFrame(e, band, zcr, centroid, flux, beat) ==
  [bass |-> band, lowMids |-> Zero, mids |-> band, highMids |-> Zero, treble |-> band,
   energy |-> e, spectralCentroid |-> centroid, spectralFlux |-> flux,
   zeroCrossingRate |-> zcr, silence |-> RLt(e, Pct(5)), bpm |-> <<120, 1>>,
   beat |-> beat]
FaintFrame == AnalyzerFrame(R(1, 50), Zero, R(1, 4), R(2, 5), Zero, FALSE)
ModerateFrame == AnalyzerFrame(R(2, 5), Zero, R(1, 4), R(2, 5), R(2, 5), FALSE)
LoudFrame == AnalyzerFrame(R(4, 5), R(1, 2), R(1, 4), R(2, 5), R(2, 5), FALSE)
BeatFrame == AnalyzerFrame(R(1, 5), Zero, R(7, 20), R(3, 5), R(2, 5), TRUE)
AnalyzerFrames == {FaintFrame, ModerateFrame, LoudFrame, BeatFrame}
\* detectEmotion(adjustedFeatures) for each setting and frame
RawEmotion ==
  [a \in AudioSensitivities |->
     [f \in AnalyzerFrames |-> AsEmotionState(detectEmotion(ApplySensitivity(f, a)))]]
\* emotionSmootherRef after one more pass of analyze() on frame f
Published(current, a, f) == SmootherUpdated(current, RawEmotion[a][f], R(15, 100))
\* The store's emotion once the loop has published frame f five times in a
\* row: long enough for the smoothed primary to leave 'neutral'
Listened(a, f) ==
  Published(Published(Published(Published(Published(
    createEmotionState("neutral"), a, f), a, f), a, f), a, f), a, f)
\* useFrame deltas in seconds: a repeated frame and a long stall
GrowthDeltas == {Zero, <<20, 1>>}
MaxGrowthCalls == 2
MaxAnalyses == 1

\* ------------------------------------------------------------------------
\* State
\* ------------------------------------------------------------------------
VARIABLES
  lsInput,      \* arguments of one generate/interpret call
  lsResult,     \* what the call returned (op = "none" before the call)
  features,     \* the AudioFeatures frame handed to detectEmotion
  emotion,      \* the EmotionState detectEmotion returned (op = "none" before)
  smCurrent,    \* EmotionSmoother.currentState
  smTarget,     \* EmotionSmoother.targetState
  smFactor,     \* EmotionSmoother.smoothingFactor
  smCount,      \* number of update() calls made
  smRepeat,     \* number of consecutive latest update() calls given the same state
  anInitialized,\* AudioAnalyzer.isInitialized
  anDetector,   \* AudioAnalyzer.energyHistory, lastBeatTime, bpmHistory
  anNow,        \* the latest performance.now() reading
  anFrame,      \* what the latest getFeatures() returned
  anCalls,      \* number of getFeatures() calls made
  beatLog,      \* clock readings of the getFeatures() calls that reported beat = true
  stFeatures,   \* store.audioFeatures as useAudioFeatures() returns it
  mapOptions,   \* the mapping hook's options (smoothing, sensitivity)
  mapSlots,     \* stateRef.current: rule key -> slot
  mapOutput,    \* outputRef.current: output key -> summed value
  mapNow,       \* performance.now() at the latest update()
  mapCount,     \* number of update() calls made
  stEmotion,    \* store.emotion
  stSensitivity,\* store.settings.audioSensitivity
  gRefs,        \* useGrowthAnimation's refs: time, growth, target, lastBeat
  gCalls,       \* number of updateGrowth/resetGrowth/skipToStage calls made
  gAnalyses,    \* number of frames the analysis loop has published
  gLast,        \* the latest updateGrowth() call: delta, frame, emotion, time added
  auInstances,  \* the AudioAnalyzer objects created so far
  auHeap,       \* the browser's audio contexts, source nodes and analyser nodes
  auLast,       \* the latest call made on an analyzer or on useAudio
  auAnalyzerRef,\* useAudio's analyzerRef.current: index into auInstances, 0 = null
  auChains,     \* the analysis loops (requestAnimationFrame chains) still scheduled
  auFrameRef,   \* the chain whose callback id animationFrameRef.current holds, 0 = none
  auStarted,    \* number of startAnalysis() calls made
  stIsListening,\* store.isListening
  auHistory,    \* featuresHistoryRef.current.length
  auFrames,     \* number of animation frames run
  mpSockets,    \* the WebSockets MultiplayerProvider has constructed: readyState each
  mpWsRef,      \* wsRef.current: index into mpSockets, 0 = null
  mpTimers,     \* the setTimeout reconnect timers still pending
  mpReconnectRef,\* reconnectTimeoutRef.current: a timer id, 0 = null
  mpIntervals,  \* the setInterval ping timers still running
  mpPingRef,    \* pingIntervalRef.current: an interval id, 0 = null
  mpConnected,  \* state.isConnected
  mpLast        \* the latest connect()/disconnect() call the application made

lsVars == <<lsInput, lsResult>>
emoVars == <<features, emotion>>
smVars == <<smCurrent, smTarget, smFactor, smCount, smRepeat>>
anVars == <<anInitialized, anDetector, anNow, anFrame, anCalls, beatLog>>
mapVars == <<stFeatures, mapOptions, mapSlots, mapOutput, mapNow, mapCount>>
gVars == <<stEmotion, stSensitivity, gRefs, gCalls, gAnalyses, gLast>>
auVars == <<auInstances, auHeap, auLast, auAnalyzerRef, auChains, auFrameRef,
            auStarted, stIsListening, auHistory, auFrames>>
mpVars == <<mpSockets, mpWsRef, mpTimers, mpReconnectRef, mpIntervals, mpPingRef,
            mpConnected, mpLast>>

vars == <<lsInput, lsResult, features, emotion,
          smCurrent, smTarget, smFactor, smCount, smRepeat,
          anInitialized, anDetector, anNow, anFrame, anCalls, beatLog,
          stFeatures, mapOptions, mapSlots, mapOutput, mapNow, mapCount,
          stEmotion, stSensitivity, gRefs, gCalls, gAnalyses, gLast,
          auInstances, auHeap, auLast, auAnalyzerRef, auChains, auFrameRef,
          auStarted, stIsListening, auHistory, auFrames,
          mpSockets, mpWsRef, mpTimers, mpReconnectRef, mpIntervals, mpPingRef,
          mpConnected, mpLast>>

NoResult == [op |-> "none"]

LsIdle == /\ lsInput = [preset |-> "oak", str |-> <<>>, baseWidth |-> R(1, 2), seed |-> 1]
          /\ lsResult = NoResult
EmoIdle == /\ features = EmptyFeatures
           /\ emotion = NoResult
\* new EmotionSmoother(): 'neutral', 0.1
SmIdle == /\ smCurrent = createEmotionState("neutral")
          /\ smTarget = createEmotionState("neutral")
          /\ smFactor = R(1, 10)
          /\ smCount = 0
          /\ smRepeat = 0
AnIdle == /\ anInitialized = FALSE
          /\ anDetector = NewDetector
          /\ anNow = 0
          /\ anFrame = getEmptyFeatures
          /\ anCalls = 0
          /\ beatLog = <<>>
\* useAudioVisualMapping() before its first update
MapIdle == /\ stFeatures = DEFAULT_AUDIO_FEATURES
           /\ mapOptions = [smoothing |-> R(1, 10), sensitivity |-> One,
                            customMappings |-> <<>>]
           /\ mapSlots = <<>>
           /\ mapOutput = <<>>
           /\ mapNow = 1000
           /\ mapCount = 0
\* useGrowthAnimation() as constructed, under the store's defaults
NewGrowthRefs == [time |-> Zero, growth |-> DEFAULT_GROWTH, target |-> DEFAULT_GROWTH,
                  lastBeat |-> FALSE]
GrowthIdle == /\ stEmotion = DEFAULT_EMOTION
              /\ stSensitivity = DefaultAudioSensitivity
              /\ gRefs = NewGrowthRefs
              /\ gCalls = 0
              /\ gAnalyses = 0
              /\ gLast = NoResult
\* No analyzer constructed, useAudio() as mounted
\* MultiplayerProvider as mounted: no socket, no timer, not connected
MpIdle == /\ mpSockets = <<>>
          /\ mpWsRef = 0
          /\ mpTimers = {}
          /\ mpReconnectRef = 0
          /\ mpIntervals = {}
          /\ mpPingRef = 0
          /\ mpConnected = FALSE
          /\ mpLast = NoResult
AuIdle == /\ auInstances = <<>>
          /\ auHeap = NewHeap
          /\ auLast = NoResult
          /\ auAnalyzerRef = 0
          /\ auChains = {}
          /\ auFrameRef = 0
          /\ auStarted = 0
          /\ stIsListening = FALSE
          /\ auHistory = 0
          /\ auFrames = 0

\* ------------------------------------------------------------------------
\* L-system calls
\* ------------------------------------------------------------------------
LsInit ==
  /\ lsInput \in [preset : PresetNames, str : StringsUpTo(MaxLen),
                  baseWidth : BaseWidths, seed : Seeds]
  /\ lsResult = NoResult
  /\ EmoIdle
  /\ SmIdle
  /\ AnIdle
  /\ MapIdle
  /\ GrowthIdle
  /\ AuIdle
  /\ MpIdle

\* interpretLSystem(str, TREE_PRESETS[preset], baseWidth, seed)
Interpret ==
  /\ lsResult.op = "none"
  /\ lsResult' = [op |-> "interpret",
                  trace |-> interpretTrace(lsInput.str, TREE_PRESETS[lsInput.preset],
                                           lsInput.baseWidth, lsInput.seed)]
  /\ UNCHANGED <<mpVars, lsInput, emoVars, smVars, anVars, mapVars, gVars, auVars>>

\* generateLSystem(TREE_PRESETS[preset], seed)
Generate ==
  /\ lsResult.op = "none"
  /\ lsInput.str = <<>>
  /\ lsResult' = [op |-> "generate",
                  str |-> generateLSystem(TREE_PRESETS[lsInput.preset], lsInput.seed)]
  /\ UNCHANGED <<mpVars, lsInput, emoVars, smVars, anVars, mapVars, gVars, auVars>>

\* Claims about the L-system -------------------------------------------------
LsStr   == lsInput.str
LsTrace == lsResult.trace
\* Number of '[' groups open before character i is read (i = Len + 1: at the end)
LsLevel(i) == Len(LsTrace[i].stack)
\* The Branch, in the returned list, that the 'F' at position j emitted
BranchAt(j) ==
  LsTrace[Len(LsTrace)].branches[Cardinality({k \in 1..j : LsStr[k] = "F"})]
\* The group opened by the '[' at position i is still open when character j is read
GroupOpen(i, j) == \A k \in (i + 1)..j : LsLevel(k) > LsLevel(i)
\* Position p is read at the level, and inside the group, where the '[' at i occurs
SameGroup(p, i) ==
  /\ LsLevel(p) = LsLevel(i)
  /\ \A k \in (IF p < i THEN p ELSE i)..(IF p < i THEN i ELSE p) : LsLevel(k) >= LsLevel(i)

\* C3: every Branch emitted directly inside a '[' ... ']' group has depth one
\* more than, and width no greater than, the turtle and the Branches at the
\* level where the '[' occurred; after the matching ']' the turtle's width
\* and depth are the values they had before the '['.
C3_Taper ==
  lsResult.op = "interpret" =>
    \A i \in 1..Len(LsStr) :
      LsStr[i] = "[" =>
        /\ \A j \in (i + 1)..Len(LsStr) :
             (GroupOpen(i, j) /\ LsLevel(j) = LsLevel(i) + 1 /\ LsStr[j] = "F") =>
               /\ BranchAt(j).depth = LsTrace[i].depth + 1
               /\ RLe(BranchAt(j).width, LsTrace[i].width)
               /\ \A p \in 1..Len(LsStr) :
                    (LsStr[p] = "F" /\ SameGroup(p, i)) =>
                      /\ BranchAt(j).depth = BranchAt(p).depth + 1
                      /\ RLe(BranchAt(j).width, BranchAt(p).width)
        /\ \A j \in (i + 1)..Len(LsStr) :
             (GroupOpen(i, j) /\ LsLevel(j) = LsLevel(i) + 1 /\ LsStr[j] = "]") =>
               /\ LsTrace[j + 1].width = LsTrace[i].width
               /\ LsTrace[j + 1].depth = LsTrace[i].depth

\* C3 witness: F[F]F has been interpreted; the Branch inside the group is
\* narrower and deeper, the Branch after the group is as wide as the first.
C3_Witness ==
  /\ lsResult.op = "interpret"
  /\ LsStr = <<"F", "[", "F", "]", "F">>
  /\ LET bs == LsTrace[Len(LsTrace)].branches
     IN  /\ Len(bs) = 3
         /\ bs[2].depth = 1 /\ RLt(bs[2].width, bs[1].width)
         /\ bs[3].depth = 0 /\ bs[3].width = bs[1].width

GeneratedOak == lsResult.op = "generate" /\ lsInput.preset = "oak"

\* C11 as stated: the oak expansion has 74 characters.
C11_Original == GeneratedOak => Len(lsResult.str) = 74

\* C11 amended: generateLSystem on the oak preset returns the same string for
\* every seed, and that string has 172 characters (20 after the first pass,
\* 8 * 20 + 12 after the second).
C11_OakExpansion ==
  GeneratedOak =>
    /\ Len(lsResult.str) = 172
    /\ \A seed \in Seeds : generateLSystem(TREE_PRESETS.oak, seed) = lsResult.str

\* C11 witness: the oak preset has been expanded, from a seed other than the
\* first, and the result starts with the rule's own expansion of "FF"
C11_Witness ==
  /\ GeneratedOak
  /\ lsInput.seed = 2
  /\ Len(lsResult.str) > 40
  /\ SubSeq(lsResult.str, 1, 20) = TREE_PRESETS.oak.rules[1].replacement
  /\ SubSeq(lsResult.str, 21, 40) = TREE_PRESETS.oak.rules[1].replacement

\* The number of '[' groups open when character p of the input is read,
\* counted on the string alone: a ']' closes a group only if one is open
RECURSIVE OpenGroups(_)
OpenGroups(p) ==
  IF p = 1 THEN 0
  ELSE CASE LsStr[p - 1] = "[" -> OpenGroups(p - 1) + 1
         [] LsStr[p - 1] = "]" /\ OpenGroups(p - 1) > 0 -> OpenGroups(p - 1) - 1
         [] OTHER -> OpenGroups(p - 1)
\* The input with character p left out
Without(str, p) == SubSeq(str, 1, p - 1) \o SubSeq(str, p + 1, Len(str))
\* A ']' read while no group is open
StrayClose(p) == LsStr[p] = "]" /\ OpenGroups(p) = 0
\* One Branch per 'F', in string order, each starting where the turtle is and
\* at the depth of the open groups; every other character emits none
OneBranchPerF ==
  /\ \A p \in 1..Len(LsStr) :
       IF LsStr[p] = "F"
       THEN /\ Len(LsTrace[p + 1].branches) = Len(LsTrace[p].branches) + 1
            /\ SubSeq(LsTrace[p + 1].branches, 1, Len(LsTrace[p].branches))
                 = LsTrace[p].branches
            /\ BranchAt(p) = LsTrace[p + 1].branches[Len(LsTrace[p + 1].branches)]
            /\ BranchAt(p).start = LsTrace[p].pos
            /\ BranchAt(p).depth = OpenGroups(p)
       ELSE LsTrace[p + 1].branches = LsTrace[p].branches
  /\ Len(LsTrace[Len(LsTrace)].branches) = Cardinality({p \in 1..Len(LsStr) : LsStr[p] = "F"})
  /\ LsTrace[Len(LsTrace)].branches # <<>> =>
       LsTrace[Len(LsTrace)].branches[1].start = <<>>

\* C28 as stated: one Branch per 'F' in string order, the first from
\* (0,0,0), each at the depth of the open groups, and a ']' with no open '['
\* changes nothing: the Branches are those of the input without it.
C28_Original ==
  lsResult.op = "interpret" =>
    /\ OneBranchPerF
    /\ \A p \in 1..Len(LsStr) :
         StrayClose(p) =>
           interpretLSystem(Without(LsStr, p), TREE_PRESETS[lsInput.preset],
                            lsInput.baseWidth, lsInput.seed)
             = LsTrace[Len(LsTrace)].branches

\* C28 amended: one Branch per 'F' in string order, the first from (0,0,0),
\* each at the depth of the open groups; a ']' with no open '[' leaves the
\* turtle's position, heading, width, length, depth, stack and the Branches
\* emitted so far unchanged, but like every character it draws two values
\* from the seeded stream.
C28_StrayCloseKeepsTurtle ==
  lsResult.op = "interpret" =>
    /\ OneBranchPerF
    /\ \A p \in 1..Len(LsStr) :
         StrayClose(p) => LsTrace[p + 1] = [LsTrace[p] EXCEPT !.calls = @ + 2]

\* C28 witness: ]F[F, unbalanced both ways, has been interpreted under a
\* preset with randomness: two Branches at depths 0 and 1, the first from
\* (0,0,0), and not the Branches of F[F
C28_Witness ==
  /\ lsResult.op = "interpret"
  /\ LsStr = <<"]", "F", "[", "F">>
  /\ lsInput.preset = "oak"
  /\ Len(LsTrace[Len(LsTrace)].branches) = 2
  /\ LsTrace[Len(LsTrace)].branches[1].start = <<>>
  /\ LsTrace[Len(LsTrace)].branches[1].depth = 0
  /\ LsTrace[Len(LsTrace)].branches[2].depth = 1
  /\ interpretLSystem(<<"F", "[", "F">>, TREE_PRESETS.oak, lsInput.baseWidth, lsInput.seed)
       # LsTrace[Len(LsTrace)].branches

\* ------------------------------------------------------------------------
\* generateLSystem on grammars with several rules for one symbol
\* ------------------------------------------------------------------------
\* rule.probability as declared: absent, 0, 0.5 or 1
Probabilities == {NoProbability, Zero, R(1, 2), One}
\* Two or three rules for 'F', told apart by their one-letter replacements;
\* one rule for 'X'; no rule for '+'
RuleLetters == <<"a", "b", "c">>
RulesOfF == UNION {[1..n -> Probabilities] : n \in {2, 3}}
StochasticRules(probabilities) ==
  [i \in 1..Len(probabilities) |->
     [symbol |-> "F", probability |-> probabilities[i],
      replacement |-> <<RuleLetters[i]>>]]
    \o << [symbol |-> "X", probability |-> NoProbability, replacement |-> <<"F">>] >>
Axioms == {<<"F">>, <<"X">>, <<"F", "X", "F">>, <<"+", "F", "F">>}
StochasticConfigs ==
  {[axiom |-> a, rules |-> StochasticRules(ps), iterations |-> n] :
     a \in Axioms, ps \in RulesOfF, n \in {1, 2}}
\* Seeds whose first stream value runs over every tenth of [0,1)
RuleSeeds == 0..9

RulesInit ==
  /\ lsInput \in [config : StochasticConfigs, seed : RuleSeeds]
  /\ lsResult = NoResult
  /\ EmoIdle
  /\ SmIdle
  /\ AnIdle
  /\ MapIdle
  /\ GrowthIdle
  /\ AuIdle
  /\ MpIdle

\* generateLSystem(config, seed)
GenerateFromRules ==
  /\ lsResult.op = "none"
  /\ lsResult' = [op |-> "generate",
                  str |-> generateLSystem(lsInput.config, lsInput.seed)]
  /\ UNCHANGED <<mpVars, lsInput, emoVars, smVars, anVars, mapVars, gVars, auVars>>

RulesNext == GenerateFromRules

SpecRules == RulesInit /\ [][RulesNext]_vars

\* A rule's weight as C27 reads it: the declared probability, 1/n when none
\* is declared
DeclaredWeight(rule, n) ==
  IF rule.probability = NoProbability THEN R(1, n) ELSE rule.probability
\* The cumulative declared weight of the first i matching rules
RECURSIVE CumulativeWeight(_, _)
CumulativeWeight(matching, i) ==
  IF i = 0 THEN Zero
  ELSE RAdd(CumulativeWeight(matching, i - 1), DeclaredWeight(matching[i], Len(matching)))
\* The matching rules whose cumulative declared weight exceeds the roll
Exceeding(matching, roll) ==
  {i \in 1..Len(matching) : RLt(roll, CumulativeWeight(matching, i))}
FirstOf(S) == CHOOSE i \in S : \A j \in S : i <= j
\* What C27 allows in place of the character at position i of `current`,
\* when `calls` stream values were drawn before the pass
AllowedAt(config, seed, current, calls, i, out) ==
  \A matching \in {Matching(config, current[i])} :
    CASE Len(matching) = 0 -> out = <<current[i]>>
      [] Len(matching) = 1 -> out = matching[1].replacement
      [] OTHER ->
         \A hit \in {Exceeding(matching,
                        seededRandom(seed, calls + CallsBefore(config, current, i) + 1))} :
           /\ hit # {} => out = matching[FirstOf(hit)].replacement
           /\ \A k \in 1..Len(matching) :
                matching[k].probability = Zero => out # matching[k].replacement
\* Every replacement here is one character long, so the k-th character of a
\* pass's output replaces the k-th character of its input
PassAllowed(config, seed, current, calls, next) ==
  /\ Len(next) = Len(current)
  /\ \A i \in 1..Len(current) :
       AllowedAt(config, seed, current, calls, i, <<next[i]>>)

\* C27 as stated, on one rewriting pass: every character of the result is
\* what the claim prescribes for the character it replaces: unchanged with no
\* rule, the single rule's replacement without a draw, and with n > 1 rules
\* the first rule whose cumulative declared weight exceeds the next draw,
\* never a rule declared with probability 0.
C27_DeclaredWeights ==
  (lsResult.op = "generate" /\ lsInput.config.iterations = 1) =>
    PassAllowed(lsInput.config, lsInput.seed, lsInput.config.axiom, 0, lsResult.str)

\* ------------------------------------------------------------------------
\* Emotion classification of one frame
\* ------------------------------------------------------------------------
EmoInit ==
  /\ features \in Frames
  /\ emotion = NoResult
  /\ LsIdle
  /\ SmIdle
  /\ AnIdle
  /\ MapIdle
  /\ GrowthIdle
  /\ AuIdle
  /\ MpIdle

\* detectEmotion(features)
DetectEmotion ==
  /\ emotion.op = "none"
  /\ emotion' = detectEmotion(features)
  /\ UNCHANGED <<mpVars, features, lsVars, smVars, anVars, mapVars, gVars, auVars>>

EmoNext == DetectEmotion

SpecEmotion == EmoInit /\ [][EmoNext]_vars

\* C2: the six scores are each >= 0 and sum to 1, and primary is a label
\* whose score is the maximum of the six.
C2_Normalized ==
  emotion.op = "detected" =>
    /\ \A e \in Emotions : RGe(emotion.scores[e], Zero)
    /\ SumOver(emotion.scores, 1) = One
    /\ \A e \in Emotions : RLe(emotion.scores[e], emotion.scores[emotion.primary])

\* C2 witness: a frame on which no rule fires has been classified; only the
\* neutral fallback contributes.
C2_Witness ==
  /\ emotion.op = "detected"
  /\ \A e \in Emotions \ {"neutral"} : emotion.accumulators[e] = Zero
  /\ emotion.scores["neutral"] = One
  /\ emotion.primary = "neutral"

\* The frame of C9: energy 0.05, everything else as in the silent frame
NearSilentFrame == [EmptyFeatures EXCEPT !.energy = Pct(5)]

\* C9 as stated: the near-silent frame is classified neutral with
\* scores.neutral >= 0.5.
C9_Original ==
  (emotion.op = "detected" /\ features = NearSilentFrame) =>
    /\ emotion.primary = "neutral"
    /\ RGe(emotion.scores["neutral"], R(1, 2))

\* C9 amended: on the near-silent frame the calm rules (low energy with low
\* zero-crossing rate, low spectral flux) and the sadness rules (low centroid,
\* low zero-crossing rate) fire, so the fallback does not: primary is calm with
\* score 6/11, sadness has 5/11 and neutral has 0.
C9_NearSilentIsCalm ==
  (emotion.op = "detected" /\ features = NearSilentFrame) =>
    /\ emotion.primary = "calm"
    /\ emotion.scores["calm"] = R(6, 11)
    /\ emotion.scores["sadness"] = R(5, 11)
    /\ emotion.scores["neutral"] = Zero

\* C9 witness: the near-silent frame has been classified.
C9_Witness ==
  /\ emotion.op = "detected"
  /\ features = NearSilentFrame
  /\ emotion.accumulators["calm"] = Pct(60)

\* The frames of C10
IsAngerFrame(f) ==
  /\ f.energy = Pct(80)
  /\ f.bass = Pct(70)
  /\ f.zeroCrossingRate = Pct(50)
  /\ f.spectralFlux = Pct(60)

\* C10: on every frame with energy 0.8, bass 0.7, zero-crossing rate 0.5 and
\* spectral flux 0.6 the primary emotion is anger and the anger accumulator
\* is strictly greater than each of the other five.
C10_Anger ==
  (emotion.op = "detected" /\ IsAngerFrame(features)) =>
    /\ emotion.primary = "anger"
    /\ \A e \in Emotions \ {"anger"} :
         RLt(emotion.accumulators[e], emotion.accumulators["anger"])

\* C10 witness: such a frame has been classified while joy, the closest
\* competitor, collected all it can (0.8 against anger's 0.9).
C10_Witness ==
  /\ emotion.op = "detected"
  /\ IsAngerFrame(features)
  /\ emotion.accumulators["joy"] = Pct(80)
  /\ emotion.accumulators["anger"] = Pct(90)
  /\ emotion.primary = "anger"

\* ------------------------------------------------------------------------
\* EmotionSmoother: constructor and update calls
\* ------------------------------------------------------------------------
\* new EmotionSmoother(initialEmotion, smoothing)
SmInit ==
  /\ \E e \in Emotions :
       /\ smCurrent = createEmotionState(e)
       /\ smTarget = createEmotionState(e)
  /\ smFactor \in SmoothingFactors
  /\ smCount = 0
  /\ smRepeat = 0
  /\ LsIdle
  /\ EmoIdle
  /\ AnIdle
  /\ MapIdle
  /\ GrowthIdle
  /\ AuIdle
  /\ MpIdle

\* update(newState)
SmootherUpdate(newState) ==
  /\ smCount < MaxUpdates
  /\ smTarget' = newState
  /\ smCurrent' = SmootherUpdated(smCurrent, newState, smFactor)
  /\ smCount' = smCount + 1
  /\ smRepeat' = IF smCount > 0 /\ newState = smTarget THEN smRepeat + 1 ELSE 1
  /\ UNCHANGED <<mpVars, smFactor, lsVars, emoVars, anVars, mapVars, gVars, auVars>>

SmNext == \E r \in RawStates : SmootherUpdate(r)

SpecSmoother == SmInit /\ [][SmNext]_vars

\* L1 distance between two score vectors
RECURSIVE DistFrom(_, _, _)
DistFrom(a, b, i) ==
  IF i > Len(EmotionOrder) THEN Zero
  ELSE RAdd(RAbs(RSub(a[EmotionOrder[i]], b[EmotionOrder[i]])), DistFrom(a, b, i + 1))
Dist(a, b) == DistFrom(a, b, 1)

\* x moves from old toward goal without crossing it
MovesToward(old, new, goal) ==
  IF RLt(old, goal) THEN RLt(old, new) /\ RLe(new, goal)
  ELSE IF RGt(old, goal) THEN RGt(old, new) /\ RGe(new, goal)
  ELSE new = old

\* C6: on every update (smoothing factor in (0,1)) each per-label smoothed
\* score moves toward the raw score passed in without crossing it, and while
\* the smoothed and raw vectors differ their distance strictly decreases; in
\* particular so when the same raw state is passed on every call.
C6_Converges ==
  [][smCount' = smCount + 1 =>
       /\ \A e \in Emotions :
            MovesToward(smCurrent.scores[e], smCurrent'.scores[e], smTarget'.scores[e])
       /\ smCurrent.scores # smTarget'.scores =>
            RLt(Dist(smCurrent'.scores, smTarget'.scores),
                Dist(smCurrent.scores, smTarget'.scores))]_vars

\* C6 witness: the same raw state has been passed three times in a row and
\* the smoothed scores still differ from it.
C6_Witness ==
  /\ smRepeat >= 3
  /\ smCurrent.scores # smTarget.scores
  /\ RGt(smFactor, Zero) /\ RLt(smFactor, One)

\* ------------------------------------------------------------------------
\* AudioAnalyzer: init, getFeatures, dispose
\* ------------------------------------------------------------------------
\* A fresh analyzer, or one that has already been polled EnergyWindow times
\* in silence, 100 ms apart (its energy window is full).
AnInit ==
  /\ anInitialized = FALSE
  /\ \/ anDetector = NewDetector /\ anNow = 0
     \/ /\ anDetector = [NewDetector EXCEPT
                           !.energyHistory = [i \in 1..EnergyWindow |-> Zero]]
        /\ anNow = 100 * EnergyWindow
  /\ anFrame = getEmptyFeatures
  /\ anCalls = 0
  /\ beatLog = <<>>
  /\ LsIdle
  /\ EmoIdle
  /\ SmIdle
  /\ MapIdle
  /\ GrowthIdle
  /\ AuIdle
  /\ MpIdle

\* initFromMicrophone() / initFromAudioElement() succeeded: setupAnalyser()
SetupAnalyser ==
  /\ ~anInitialized
  /\ anInitialized' = TRUE
  /\ UNCHANGED <<mpVars, anDetector, anNow, anFrame, anCalls, beatLog, lsVars, emoVars, smVars, mapVars, gVars, auVars>>

\* dispose()
Dispose ==
  /\ anInitialized
  /\ anInitialized' = FALSE
  /\ UNCHANGED <<mpVars, anDetector, anNow, anFrame, anCalls, beatLog, lsVars, emoVars, smVars, mapVars, gVars, auVars>>

\* getFeatures(), step ms after the previous clock reading, the analyser
\* node delivering poll m
GetFeatures(m, step) ==
  /\ anCalls < MaxCalls
  /\ anCalls' = anCalls + 1
  /\ anNow' = anNow + step
  /\ IF ~anInitialized
     THEN /\ anFrame' = getEmptyFeatures
          /\ UNCHANGED <<anDetector, beatLog>>
     ELSE LET b == detectBeat(anDetector, m.energy, anNow')
          IN  /\ anDetector' = [energyHistory |-> b.energyHistory,
                                lastBeatTime |-> b.lastBeatTime,
                                bpmHistory |-> b.bpmHistory]
              /\ anFrame' = AssembleFeatures(m, b)
              /\ beatLog' = IF b.beat THEN Append(beatLog, anNow') ELSE beatLog
  /\ UNCHANGED <<mpVars, anInitialized, lsVars, emoVars, smVars, mapVars, gVars, auVars>>

AnNext ==
  \/ SetupAnalyser
  \/ Dispose
  \/ \E m \in Measurements, step \in ClockSteps : GetFeatures(m, step)

SpecAnalyzer == AnInit /\ [][AnNext]_vars

\* C4: no two getFeatures calls that report beat = true have clock readings
\* less than 200 ms apart.
C4_BeatInterval ==
  \A i, j \in 1..Len(beatLog) :
    i < j => beatLog[j] - beatLog[i] >= MinBeatInterval

\* C4 witness: two beats have been reported, 201 ms apart.
C4_Witness ==
  /\ Len(beatLog) >= 2
  /\ beatLog[2] - beatLog[1] = MinBeatInterval + 1
  /\ anFrame.beat

\* ------------------------------------------------------------------------
\* AudioAnalyzer that has been hearing a steady beat
\* ------------------------------------------------------------------------
BpmInit ==
  /\ anInitialized = TRUE
  /\ \E n \in HeardRounds :
       /\ anDetector = HeardDetector[n]
       /\ anNow = BeatPeriod * n
       /\ beatLog = [i \in 1..n |-> BeatPeriod * i]
       /\ anFrame = AssembleFeatures(Measurement(One, R(4, 5)),
                      [beat |-> TRUE,
                       bpm |-> IF n = 1 THEN <<120, 1>>
                               ELSE Average(HeardDetector[n].bpmHistory)])
  /\ anCalls = 0
  /\ LsIdle
  /\ EmoIdle
  /\ SmIdle
  /\ MapIdle
  /\ GrowthIdle
  /\ AuIdle
  /\ MpIdle

\* Gaps between polls: 240 BPM, exactly 200 BPM, just below 200 BPM and
\* exactly 40 BPM when a beat follows a beat; the polls are silence and a
\* loud full spectrum
BpmClockSteps == {250, 300, 301, 1500}
BpmPolls == {Measurement(Zero, Zero), Measurement(One, R(4, 5))}
BpmNext ==
  \/ SetupAnalyser
  \/ Dispose
  \/ \E m \in BpmPolls, step \in BpmClockSteps : GetFeatures(m, step)

SpecBpm == BpmInit /\ [][BpmNext]_vars

\* What the claim describes for one detectBeat call: the window after a
\* beat that follows an earlier one, interval ms later, accepted or not
WindowAfter(window, interval) ==
  IF Len(window) = BpmWindow
  THEN Append(SubSeq(window, 2, BpmWindow), R(60000, interval))
  ELSE Append(window, R(60000, interval))
ReportedBpm(window) == IF window = <<>> THEN <<120, 1>> ELSE Average(window)
BpmStep(accepted) ==
  (anCalls' = anCalls + 1 /\ anInitialized) =>
    /\ anDetector'.bpmHistory =
         IF anFrame'.beat /\ anDetector.lastBeatTime > 0 /\ accepted
         THEN WindowAfter(anDetector.bpmHistory, anNow' - anDetector.lastBeatTime)
         ELSE anDetector.bpmHistory
    /\ Len(anDetector'.bpmHistory) <= BpmWindow
    /\ anFrame'.bpm = ReportedBpm(anDetector'.bpmHistory)

\* C23 as stated: on each beat after the first, 60000 / interval is pushed
\* into the BPM window exactly when it lies in [40, 200], bounds included;
\* the window holds at most 10 values, oldest dropped first; bpm is the
\* window's mean, 120 while it is empty.
C23_Original ==
  [][BpmStep(/\ 40 * (anNow' - anDetector.lastBeatTime) <= 60000
             /\ 60000 <= 200 * (anNow' - anDetector.lastBeatTime))]_vars

\* C23 amended: the same with the open range (40, 200): an instantaneous BPM
\* of exactly 40 or exactly 200 is not pushed.
C23_OpenRange ==
  [][BpmStep(/\ 40 * (anNow' - anDetector.lastBeatTime) < 60000
             /\ 60000 < 200 * (anNow' - anDetector.lastBeatTime))]_vars

\* C23 witness: with ten values of 120 in the window, a beat 301 ms after
\* the previous one pushed 60000/301 and dropped the oldest value; the
\* reported bpm is the mean of the ten values now held.
C23_Witness ==
  /\ Len(anDetector.bpmHistory) = BpmWindow
  /\ anDetector.bpmHistory[BpmWindow] = R(60000, 301)
  /\ anDetector.bpmHistory[1] = <<120, 1>>
  /\ anFrame.beat
  /\ anFrame.bpm = RDiv(RAdd(<<1080, 1>>, R(60000, 301)), <<10, 1>>)

\* C22 as stated: after every update the returned state's primary is a label
\* with the largest blended score, intensity is that largest score and
\* confidence is the largest minus the second largest blended score.
C22_Recomputed ==
  smCount > 0 =>
    /\ smCurrent.scores[smCurrent.primary] = MaxOf(smCurrent.scores)
    /\ smCurrent.intensity = MaxOf(smCurrent.scores)
    /\ smCurrent.confidence = RSub(MaxOf(smCurrent.scores), SecondOf(smCurrent.scores))

\* ------------------------------------------------------------------------
\* Mapping layer: the store's frame changes, update() runs
\* ------------------------------------------------------------------------
MapInit ==
  /\ stFeatures = DEFAULT_AUDIO_FEATURES
  /\ mapOptions \in MappingOptions
  /\ mapSlots = <<>>
  /\ mapOutput = <<>>
  /\ mapNow = 1000
  /\ mapCount = 0
  /\ LsIdle
  /\ EmoIdle
  /\ SmIdle
  /\ AnIdle
  /\ GrowthIdle
  /\ AuIdle
  /\ MpIdle

\* setAudioFeatures(f)
SetAudioFeatures(f) ==
  /\ f # stFeatures
  /\ stFeatures' = f
  /\ UNCHANGED <<mpVars, mapOptions, mapSlots, mapOutput, mapNow, mapCount,
                 lsVars, emoVars, smVars, anVars, gVars, auVars>>

\* update(delta), step ms after the previous update
MapUpdate(step) ==
  /\ mapCount < UpdateLimit(mapOptions)
  /\ mapCount' = mapCount + 1
  /\ mapNow' = mapNow + step
  /\ LET r == UpdateLoop(allMappings(mapOptions.customMappings), 1, mapSlots, <<>>, mapNow', stFeatures,
                         mapOptions, stSensitivity)
     IN  /\ mapSlots' = r.slots
         /\ mapOutput' = r.output
  /\ UNCHANGED <<mpVars, stFeatures, mapOptions, lsVars, emoVars, smVars, anVars, gVars, auVars>>

MapNext ==
  \/ \E f \in MappingFrames : SetAudioFeatures(f)
  \/ \E step \in MapClockSteps : MapUpdate(step)

SpecMapping == MapInit /\ [][MapNext]_vars

\* The beat rule with duration = 150 (beat -> flowers pulse)
PulseKey == <<"beat", "flowers", "pulse">>
PulseDuration == 150
HasPulse == PulseKey \in DOMAIN mapSlots
Pulse == mapSlots[PulseKey]

C20_RisingEdgeOnly ==
  [][(mapCount' = mapCount + 1 /\ HasPulse /\ Pulse.lastBeatTime = mapNow
        /\ stFeatures.beat) =>
       mapSlots'[PulseKey].lastBeatTime = Pulse.lastBeatTime]_vars

\* ------------------------------------------------------------------------
\* Mapping layer given custom rules
\* ------------------------------------------------------------------------
CustomInit ==
  /\ stFeatures \in {NoFeatures, DEFAULT_AUDIO_FEATURES}
  /\ mapOptions \in CustomOptions
  /\ mapSlots = <<>>
  /\ mapOutput = <<>>
  /\ mapNow = 1000
  /\ mapCount = 0
  /\ LsIdle
  /\ EmoIdle
  /\ SmIdle
  /\ AnIdle
  /\ GrowthIdle
  /\ AuIdle
  /\ MpIdle

CustomNext ==
  \/ \E f \in CustomFrames : SetAudioFeatures(f)
  \/ \E step \in MapClockSteps : MapUpdate(step)

SpecCustomMapping == CustomInit /\ [][CustomNext]_vars

\* The rule table of the hook in this state
Table == allMappings(mapOptions.customMappings)

\* The value the claim describes for a rule, computed step by step in the
\* claimed order
C15_Read(mapping) ==
  IF stFeatures = NoFeatures
       \/ mapping.source \notin {"bass", "lowMids", "mids", "highMids", "treble",
                                 "energy", "beat", "silence", "spectralCentroid",
                                 "spectralFlux"}
  THEN Zero ELSE getFeatureValue(stFeatures, mapping.source)
C15_Gated(mapping) ==
  IF mapping.threshold # "none" /\ RLt(C15_Read(mapping), mapping.threshold)
  THEN Zero ELSE C15_Read(mapping)
C15_Inverted(mapping) ==
  IF mapping.invert THEN RSub(One, C15_Gated(mapping)) ELSE C15_Gated(mapping)
C15_Scaled(mapping) ==
  RMul(C15_Inverted(mapping),
       RMul(mapping.multiplier, RMul(mapOptions.sensitivity, stSensitivity)))

\* C15: on every update, each rule without a duration gets as its target
\* value the source feature (0 when unknown or when there is no frame),
\* zeroed below the threshold, then inverted, then multiplied by
\* multiplier x sensitivity x settings.audioSensitivity.
C15_PreSmoothingOrder ==
  [][mapCount' = mapCount + 1 =>
       \A i \in 1..Len(Table) :
         Table[i].duration = 0 =>
           mapSlots'[RuleKey(Table[i])].targetValue = C15_Scaled(Table[i])]_vars

\* C15 witness: a half-level band below the rule's threshold of 3/4 was
\* zeroed and then inverted to 1 (target 2 x 1 x 5/2 = 5), the unknown source
\* read 0, and its inverted twin read 1.
C15_Witness ==
  /\ mapOptions = GatedOptions
  /\ mapCount = 1
  /\ stFeatures = StoreFrame(R(1, 2), FALSE)
  /\ mapSlots[<<"bass", "trunk", "scale">>].targetValue = R(5, 1)
  /\ mapSlots[<<"mids", "color", "brightness">>].targetValue = Zero
  /\ mapSlots[<<"loudness", "sky", "brightness">>].targetValue = Zero
  /\ mapSlots[<<"loudness", "sky", "opacity">>].targetValue = R(5, 2)
  /\ mapSlots[<<"energy", "fog", "opacity">>].targetValue = R(5, 8)

\* Output keys a caller can ask for: those of the table, and one no rule has
AskedKeys == {OutputKey(Table[i]) : i \in 1..Len(Table)} \cup {<<"sky", "rotation">>}
RulesFor(out) == {i \in 1..Len(Table) : OutputKey(Table[i]) = out}

RECURSIVE SumRules(_, _)
SumRules(f, indices) ==
  IF indices = {} THEN Zero
  ELSE LET i == CHOOSE j \in indices : TRUE
       IN  RAdd(f[i], SumRules(f, indices \ {i}))

\* The current value in each rule's slot
SlotValues == [i \in 1..Len(Table) |->
                 IF RuleKey(Table[i]) \in DOMAIN mapSlots
                 THEN mapSlots[RuleKey(Table[i])].currentValue ELSE Zero]

\* C16 as stated: after update(), getValue(target, effect) is the sum of the
\* current values of the rules with that target and effect; it is 0 when no
\* rule matches or update() never ran.
C16_Original ==
  \A out \in AskedKeys :
    getValue(mapOutput, out[1], out[2]) =
      IF mapCount = 0 THEN Zero ELSE SumRules(SlotValues, RulesFor(out))

\* The value rule i's slot holds right after rule i was processed in the
\* update() being made
ValueWhenProcessed(i) ==
  UpdateLoop(SubSeq(Table, 1, i), 1, mapSlots, <<>>, mapNow', stFeatures,
             mapOptions, stSensitivity).slots[RuleKey(Table[i])].currentValue

\* C16 amended: after update(), getValue(target, effect) is the sum, over the
\* rules with that target and effect, of the value each rule's slot held
\* right after that rule was processed; when those rules have distinct
\* sources this is the sum of their current values. getValue is 0 when no
\* rule matches or update() never ran.
C16_SumOfProcessed ==
  /\ [](\A out \in AskedKeys :
          (mapCount = 0 \/ RulesFor(out) = {}) => getValue(mapOutput, out[1], out[2]) = Zero)
  /\ [][mapCount' = mapCount + 1 =>
          \A out \in AskedKeys :
            /\ getValue(mapOutput', out[1], out[2]) =
                 SumRules([i \in 1..Len(Table) |-> ValueWhenProcessed(i)], RulesFor(out))
            /\ (\A i, j \in RulesFor(out) : Table[i].source = Table[j].source => i = j)
                 => getValue(mapOutput', out[1], out[2]) =
                      SumRules([i \in 1..Len(Table) |->
                                 mapSlots'[RuleKey(Table[i])].currentValue],
                              RulesFor(out))]_vars

\* C16 witness: under the musical preset, whose second beat -> flowers pulse
\* rule shares the default rule's slot, an update on a beat leaves
\* getValue("flowers", "pulse") positive and different from twice the slot's
\* current value, while getValue("trunk", "scale") is the one rule's value.
C16_Witness ==
  /\ mapOptions = MusicalPreset
  /\ mapCount >= 1
  /\ HasPulse
  /\ RGt(getValue(mapOutput, "flowers", "pulse"), Zero)
  /\ getValue(mapOutput, "flowers", "pulse") # RMul(R(2, 1), Pulse.currentValue)
  /\ getValue(mapOutput, "trunk", "scale") = mapSlots[<<"bass", "trunk", "scale">>].currentValue
  /\ RGt(getValue(mapOutput, "trunk", "scale"), Zero)

\* stateRef.current once rule i was processed on slots in the update()
\* being made
SlotsAfter(i, slots) ==
  UpdateLoop(<<Table[i]>>, 1, slots, <<>>, mapNow', stFeatures, mapOptions,
             stSensitivity).slots

\* From rule i on, each rule writes its own slot only, and the update ends
\* with the slots in last
RECURSIVE OwnSlotOnly(_, _, _)
OwnSlotOnly(i, before, last) ==
  IF i > Len(Table) THEN before = last
  ELSE \A after \in {SlotsAfter(i, before)} :
         /\ DOMAIN after = DOMAIN before \cup {RuleKey(Table[i])}
         /\ \A k \in DOMAIN before : k # RuleKey(Table[i]) => after[k] = before[k]
         /\ OwnSlotOnly(i + 1, after, last)

\* C21: processing one rule changes only the slot of its own
\* (source, target, effect) triple; every other slot keeps its current
\* value, target value and last-beat timestamp.
C21_OnlyOwnSlot ==
  [][mapCount' = mapCount + 1 => OwnSlotOnly(1, mapSlots, mapSlots')]_vars

\* C21 witness: two updates on a beat were made; the camera-shake rule
\* (duration 100) and the flower-pulse rule (duration 150) recorded the same
\* beat and hold different current values, each its own multiplier's.
ShakeKey == <<"beat", "camera", "shake">>
C21_Witness ==
  /\ mapCount >= 2
  /\ HasPulse
  /\ ShakeKey \in DOMAIN mapSlots
  /\ Pulse.lastBeatTime = mapNow
  /\ mapSlots[ShakeKey].lastBeatTime = mapNow
  /\ RGt(mapSlots[ShakeKey].currentValue, Zero)
  /\ Pulse.currentValue = RMul(R(3, 2), mapSlots[ShakeKey].currentValue)

\* ------------------------------------------------------------------------
\* Mapping layer driven by useFrame: update(delta) with the frame's delta
\* ------------------------------------------------------------------------
\* update(delta), step ms after the previous update
MapUpdateWith(delta, step) ==
  /\ mapCount < UpdateLimit(mapOptions)
  /\ mapCount' = mapCount + 1
  /\ mapNow' = mapNow + step
  /\ \E r \in {update(delta, mapOptions.customMappings, mapSlots, mapNow', stFeatures,
                       mapOptions, stSensitivity)} :
       /\ mapSlots' = r.slots
       /\ mapOutput' = r.output
  /\ UNCHANGED <<mpVars, stFeatures, mapOptions, lsVars, emoVars, smVars, anVars, gVars, auVars>>

FrameNext ==
  \/ \E f \in CustomFrames : SetAudioFeatures(f)
  \/ \E delta \in MapDeltas, step \in MapClockSteps : MapUpdateWith(delta, step)

SpecFrame == CustomInit /\ [][FrameNext]_vars

\* C29: whatever delta an update(delta) call was given, the slots and the
\* output it leaves are those every other delta gives from the same slots,
\* frame and clock reading; two layers fed the same frames at the same clock
\* readings therefore agree after every update, whatever their deltas.
C29_DeltaIndependent ==
  [][mapCount' = mapCount + 1 =>
       \A delta \in MapDeltas :
         update(delta, mapOptions.customMappings, mapSlots, mapNow', stFeatures,
                mapOptions, stSensitivity)
           = [slots |-> mapSlots', output |-> mapOutput']]_vars

\* C29 witness: after two updates some rule's value is still on its way to a
\* non-zero target, so a change of smoothing per frame would show
C29_Witness ==
  /\ mapCount >= 2
  /\ \E k \in DOMAIN mapSlots :
       /\ RGt(mapSlots[k].currentValue, Zero)
       /\ RLt(mapSlots[k].currentValue, mapSlots[k].targetValue)
       /\ OutputKey([target |-> k[2], effect |-> k[3]]) \in DOMAIN mapOutput

\* ------------------------------------------------------------------------
\* Growth animation fed by the analysis loop
\* ------------------------------------------------------------------------
GrowthInit ==
  /\ stSensitivity \in AudioSensitivities
  /\ \/ /\ stFeatures = DEFAULT_AUDIO_FEATURES
        /\ stEmotion = DEFAULT_EMOTION
        /\ smCurrent = createEmotionState("neutral")
        /\ smTarget = createEmotionState("neutral")
     \/ \E f \in AnalyzerFrames :
          /\ stFeatures = ApplySensitivity(f, stSensitivity)
          /\ stEmotion = Listened(stSensitivity, f)
          /\ smCurrent = Listened(stSensitivity, f)
          /\ smTarget = RawEmotion[stSensitivity][f]
  /\ gRefs = NewGrowthRefs
  /\ gCalls = 0
  /\ gAnalyses = 0
  /\ gLast = NoResult
  /\ smFactor = R(15, 100)
  /\ smCount = 0
  /\ smRepeat = 0
  /\ mapOptions = [smoothing |-> R(1, 10), sensitivity |-> One,
                   customMappings |-> <<>>]
  /\ mapSlots = <<>>
  /\ mapOutput = <<>>
  /\ mapNow = 1000
  /\ mapCount = 0
  /\ LsIdle
  /\ EmoIdle
  /\ AnIdle
  /\ AuIdle
  /\ MpIdle

\* One pass of analyze(): scale the frame, classify, smooth, publish both
Analyze(f) ==
  /\ gAnalyses < MaxAnalyses
  /\ gAnalyses' = gAnalyses + 1
  /\ stFeatures' = ApplySensitivity(f, stSensitivity)
  /\ smTarget' = RawEmotion[stSensitivity][f]
  /\ smCurrent' = Published(smCurrent, stSensitivity, f)
  /\ smCount' = smCount + 1
  /\ smRepeat' = IF smCount > 0 /\ smTarget' = smTarget THEN smRepeat + 1 ELSE 1
  /\ stEmotion' = smCurrent'
  /\ UNCHANGED <<mpVars, smFactor, stSensitivity, gRefs, gCalls, gLast,
                 mapOptions, mapSlots, mapOutput, mapNow, mapCount,
                 lsVars, emoVars, anVars, auVars>>

\* updateGrowth(delta)
UpdateGrowth(delta) ==
  /\ gCalls < MaxGrowthCalls
  /\ gCalls' = gCalls + 1
  /\ gRefs' = updateGrowth(DEFAULT_GROWTH_CONFIG, gRefs, stFeatures,
                           stEmotion.primary, delta)
  /\ gLast' = [op |-> "updateGrowth", delta |-> delta, audioFeatures |-> stFeatures,
               primary |-> stEmotion.primary,
               added |-> RSub(gRefs'.time, gRefs.time)]
  /\ UNCHANGED <<mpVars, stEmotion, stSensitivity, gAnalyses, lsVars, emoVars, smVars,
                 anVars, mapVars, auVars>>

\* resetGrowth()
ResetGrowth ==
  /\ gRefs' = [gRefs EXCEPT !.time = Zero, !.growth = DEFAULT_GROWTH,
                            !.target = DEFAULT_GROWTH]
  /\ gCalls < MaxGrowthCalls
  /\ gCalls' = gCalls + 1
  /\ UNCHANGED <<mpVars, stEmotion, stSensitivity, gAnalyses, gLast,
                 lsVars, emoVars, smVars, anVars, mapVars, auVars>>

\* skipToStage(stage)
SkipToStage(stage) ==
  /\ skipToStage(DEFAULT_GROWTH_CONFIG, stage) # "keep"
  /\ gRefs' = [gRefs EXCEPT !.time = skipToStage(DEFAULT_GROWTH_CONFIG, stage)]
  /\ gCalls < MaxGrowthCalls
  /\ gCalls' = gCalls + 1
  /\ UNCHANGED <<mpVars, stEmotion, stSensitivity, gAnalyses, gLast,
                 lsVars, emoVars, smVars, anVars, mapVars, auVars>>

GrowthNext ==
  \/ \E f \in AnalyzerFrames : Analyze(f)
  \/ \E delta \in GrowthDeltas : UpdateGrowth(delta)
  \/ ResetGrowth
  \/ \E stage \in GrowthFields : SkipToStage(stage)

SpecGrowth == GrowthInit /\ [][GrowthNext]_vars

InUnit(x) == RGe(x, Zero) /\ RLe(x, One)

\* C7 as stated: every scalar of the exposed GrowthState is in [0,1].
C7_Bounded == \A k \in GrowthFields : InUnit(gRefs.growth[k])

\* The time one tick would add at energy 0, all else as in the latest tick
AddedAtZero ==
  RMul(gLast.delta,
       getGrowthSpeed(DEFAULT_GROWTH_CONFIG, [gLast.audioFeatures EXCEPT !.energy = Zero],
                      gLast.primary))
TickedAtEnergy ==
  /\ gLast.op = "updateGrowth"
  /\ RGt(gLast.delta, Zero)
  /\ gLast.audioFeatures.energy # Zero

\* C8 as stated: a tick at any non-zero energy adds strictly less growth
\* time than the same tick at energy 0.
C8_Original == TickedAtEnergy => RLt(gLast.added, AddedAtZero)

\* C8 amended: with silenceGrowth on, a tick at non-zero energy e adds
\* strictly less growth time than the same tick at energy 0 exactly when
\* e >= 0.1 and e * energyInfluence < 0.5; a fainter signal keeps the silence
\* boost and a louder one outruns it.
C8_SilenceFasterInBand ==
  TickedAtEnergy =>
    (RLt(gLast.added, AddedAtZero) <=>
       /\ RGe(gLast.audioFeatures.energy, R(1, 10))
       /\ RLt(RMul(gLast.audioFeatures.energy, DEFAULT_GROWTH_CONFIG.energyInfluence),
              R(1, 2)))

\* C8 witness: a tick at energy inside the band added less than silence would
C8_Witness ==
  /\ TickedAtEnergy
  /\ RGe(gLast.audioFeatures.energy, R(1, 10))
  /\ RLt(gLast.audioFeatures.energy, R(1, 2))
  /\ RLt(gLast.added, AddedAtZero)

\* ------------------------------------------------------------------------
\* Growth animation over a whole life: long frames carry the plant through
\* every stage window
\* ------------------------------------------------------------------------
\* useFrame deltas in seconds: a repeated frame and a stall long enough to
\* cross a stage window
BloomDeltas == {Zero, <<60, 1>>}
\* timeRef as constructed or after skipToStage(stage)
StageEntryTimes ==
  {Zero} \cup {skipToStage(DEFAULT_GROWTH_CONFIG, stage) :
                 stage \in {"stemGrowth", "branching", "leafing", "flowering"}}

BloomInit ==
  /\ stSensitivity = One
  /\ \/ /\ stFeatures = DEFAULT_AUDIO_FEATURES
        /\ stEmotion = DEFAULT_EMOTION
        /\ smCurrent = createEmotionState("neutral")
        /\ smTarget = createEmotionState("neutral")
     \/ \E f \in AnalyzerFrames :
          /\ stFeatures = ApplySensitivity(f, stSensitivity)
          /\ stEmotion = Listened(stSensitivity, f)
          /\ smCurrent = Listened(stSensitivity, f)
          /\ smTarget = RawEmotion[stSensitivity][f]
  /\ \E t \in StageEntryTimes : gRefs = [NewGrowthRefs EXCEPT !.time = t]
  /\ gCalls = 0
  /\ gAnalyses = 0
  /\ gLast = NoResult
  /\ smFactor = R(15, 100)
  /\ smCount = 0
  /\ smRepeat = 0
  /\ mapOptions = [smoothing |-> R(1, 10), sensitivity |-> One,
                   customMappings |-> <<>>]
  /\ mapSlots = <<>>
  /\ mapOutput = <<>>
  /\ mapNow = 1000
  /\ mapCount = 0
  /\ LsIdle
  /\ EmoIdle
  /\ AnIdle
  /\ AuIdle
  /\ MpIdle

BloomNext ==
  \/ \E f \in AnalyzerFrames : Analyze(f)
  \/ \E delta \in BloomDeltas : UpdateGrowth(delta)

SpecBloom == BloomInit /\ [][BloomNext]_vars

Ticked == \E delta \in BloomDeltas : UpdateGrowth(delta)

\* The flowering target of the tick just made, after treble modulation and
\* before the bloom test
FloweringModulated(time, audioFeatures) ==
  Boosted(ScheduledTargets(DEFAULT_GROWTH_CONFIG, time, audioFeatures.energy).flowering,
          audioFeatures.treble, DEFAULT_GROWTH_CONFIG.trebleInfluence)
\* The beat flag updateGrowth saw on the tick before
BeatOnPreviousTick == gLast.op = "updateGrowth" /\ gLast.audioFeatures.beat

\* C24: with bloomOnBeat on, a tick forces the flowering target to 1 exactly
\* when the beat flag is true, was false on the previous tick (or there was
\* none) and the treble-modulated flowering target exceeds 0.5; otherwise
\* the target is the modulated value, so a beat flag held over consecutive
\* ticks forces the target on the first of them only.
C24_RisingEdgeBloom ==
  [][Ticked =>
       gRefs'.target.flowering =
         IF /\ stFeatures.beat
            /\ ~BeatOnPreviousTick
            /\ RGt(FloweringModulated(gRefs'.time, stFeatures), R(1, 2))
         THEN One
         ELSE FloweringModulated(gRefs'.time, stFeatures)]_vars

\* C24 witness: the beat flag was held over two ticks and the second left
\* the flowering target at its modulated value between 0.5 and 1
C24_Witness ==
  /\ gCalls >= 2
  /\ gLast.op = "updateGrowth"
  /\ gLast.audioFeatures.beat
  /\ gRefs.lastBeat
  /\ RGt(gRefs.target.flowering, R(1, 2))
  /\ RLt(gRefs.target.flowering, One)

\* The five stages in schedule order, and clamp01
StageOrder == <<"germination", "stemGrowth", "branching", "leafing", "flowering">>
StageDuration(i) ==
  DEFAULT_GROWTH_CONFIG[<<"germinationDuration", "stemGrowthDuration", "branchingDuration",
                          "leafingDuration", "floweringDuration">>[i]]
RECURSIVE StageStart(_)
StageStart(i) == IF i = 1 THEN Zero ELSE RAdd(StageStart(i - 1), StageDuration(i - 1))
Clamp01(x) == RMax(Zero, RMin(One, x))
\* The pre-modulation targets `scheduled` at growth time `time` are the
\* staged schedule
FollowsSchedule(time, scheduled) ==
  \A i \in 1..5 :
    /\ scheduled[StageOrder[i]] =
         Clamp01(RDiv(RSub(time, StageStart(i)), StageDuration(i)))
    /\ scheduled[StageOrder[i]] # Zero =>
         \A j \in 1..(i - 1) : scheduled[StageOrder[j]] = One

\* C25: on every tick the pre-modulation targets at the new growth time are
\* clamp01((time - start) / duration) with starts at the cumulative sums of
\* the earlier durations, a stage's target is non-zero only when every
\* earlier stage's target is 1, no pre-modulation target is below the one at
\* the growth time before the tick, and the targets written to the ref are
\* the schedule's (germination) or at least the schedule's (modulated stages).
C25_StagedSchedule ==
  [][Ticked =>
       \A before \in {ScheduledTargets(DEFAULT_GROWTH_CONFIG, gRefs.time, Zero)},
          scheduled \in {ScheduledTargets(DEFAULT_GROWTH_CONFIG, gRefs'.time, Zero)} :
         /\ FollowsSchedule(gRefs'.time, scheduled)
         /\ \A i \in 1..5 :
              /\ RGe(scheduled[StageOrder[i]], before[StageOrder[i]])
              /\ RGe(gRefs'.target[StageOrder[i]], scheduled[StageOrder[i]])
         /\ gRefs'.target.germination = scheduled.germination]_vars

\* C25 witness: after two ticks the growth time is inside the leafing
\* window: branching is complete, leafing under way, flowering not begun
C25_Witness ==
  /\ gCalls >= 2
  /\ RGt(gRefs.time, StageStart(4))
  /\ RLt(gRefs.time, StageStart(5))
  /\ gRefs.target.germination = One
  /\ gRefs.target.flowering = Zero
  /\ RGt(gRefs.target.leafing, Zero)
  /\ RLt(gRefs.target.leafing, One)

\* The refs as resetGrowth() leaves them
FreshlyReset ==
  /\ gRefs.time = Zero
  /\ gRefs.growth = DEFAULT_GROWTH
  /\ gRefs.target = DEFAULT_GROWTH

\* C26 as stated: on the tick that follows resetGrowth(), whatever the
\* (constant) audio features and primary emotion and for delta >= 0, no
\* exposed stage value is lower after the tick than before it, and each has
\* moved toward its target by one tenth of the gap.
C26_NeverShrinks ==
  [][(FreshlyReset /\ \E delta \in GrowthDeltas : UpdateGrowth(delta)) =>
       \A i \in 1..5 :
         /\ RGe(gRefs'.growth[StageOrder[i]], gRefs.growth[StageOrder[i]])
         /\ gRefs'.growth[StageOrder[i]] =
              RAdd(gRefs.growth[StageOrder[i]],
                   RMul(RSub(gRefs'.target[StageOrder[i]], gRefs.growth[StageOrder[i]]),
                        R(1, 10)))]_vars

\* ------------------------------------------------------------------------
\* One AudioAnalyzer driven through its public methods
\* ------------------------------------------------------------------------
OthersIdle == LsIdle /\ EmoIdle /\ SmIdle /\ MapIdle /\ GrowthIdle

LcInit ==
  /\ auInstances = <<NewAnalyzer>>
  /\ auHeap = NewHeap
  /\ auLast = NoResult
  /\ auAnalyzerRef = 0
  /\ auChains = {}
  /\ auFrameRef = 0
  /\ auStarted = 0
  /\ stIsListening = FALSE
  /\ auHistory = 0
  /\ auFrames = 0
  /\ AnIdle
  /\ OthersIdle
  /\ MpIdle

hookVars == <<auAnalyzerRef, auChains, auFrameRef, auStarted, stIsListening,
              auHistory, auFrames>>
restVars == <<lsVars, emoVars, smVars, mapVars, gVars>>

\* initFromMicrophone() called: runs up to its await on getUserMedia
InitFromMicrophone(i) ==
  /\ ~auInstances[i].awaiting
  /\ Len(auHeap.contexts) < MaxContexts
  /\ auInstances' = [auInstances EXCEPT ![i].awaiting = TRUE]
  /\ auLast' = [op |-> "initFromMicrophone", inst |-> i]
  /\ UNCHANGED <<mpVars, auHeap, hookVars, anVars, restVars>>

\* The permission is granted: initFromMicrophone() resumes and resolves
GrantResolves(i) ==
  /\ auInstances[i].awaiting
  /\ LET r == MicrophoneGranted(auInstances[i], auHeap)
     IN  /\ auInstances' = [auInstances EXCEPT ![i] = r.analyzer]
         /\ auHeap' = r.heap
  /\ auLast' = [op |-> "granted", inst |-> i]
  /\ UNCHANGED <<mpVars, hookVars, anVars, restVars>>

\* The permission is refused: initFromMicrophone() rethrows
GrantDenied(i) ==
  /\ auInstances[i].awaiting
  /\ auInstances' = [auInstances EXCEPT ![i].awaiting = FALSE]
  /\ auLast' = [op |-> "denied", inst |-> i]
  /\ UNCHANGED <<mpVars, auHeap, hookVars, anVars, restVars>>

\* initFromAudioElement(audioElement)
InitFromAudioElement(i, audioElement) ==
  /\ Len(auHeap.contexts) < MaxContexts
  /\ LET r == initFromAudioElement(auInstances[i], auHeap, audioElement)
     IN  /\ auInstances' = [auInstances EXCEPT ![i] = r.analyzer]
         /\ auHeap' = r.heap
         /\ auLast' = [op |-> "initFromAudioElement", inst |-> i, failed |-> r.failed,
                       second |-> auInstances[i].elementInit,
                       before |-> auInstances[i]]
  /\ UNCHANGED <<mpVars, hookVars, anVars, restVars>>

\* dispose()
DisposeCall(i) ==
  /\ LET r == dispose(auInstances[i], auHeap)
     IN  /\ auInstances' = [auInstances EXCEPT ![i] = r.analyzer]
         /\ auHeap' = r.heap
  /\ auLast' = [op |-> "dispose", inst |-> i]
  /\ UNCHANGED <<mpVars, hookVars, anVars, restVars>>

\* getFeatures(), step ms after the previous clock reading
PollFeatures(i, m, step) ==
  /\ anCalls < MaxCalls
  /\ anCalls' = anCalls + 1
  /\ anNow' = anNow + step
  /\ LET r == getFeatures(auInstances[i], m, anNow')
     IN  /\ auInstances' = [auInstances EXCEPT ![i] = r.analyzer]
         /\ anFrame' = r.frame
  /\ auLast' = [op |-> "getFeatures", inst |-> i,
                wasInitialized |-> auInstances[i].isInitialized,
                detectorBefore |-> auInstances[i].detector]
  /\ UNCHANGED <<mpVars, auHeap, hookVars, anInitialized, anDetector, beatLog, restVars>>

LcNext ==
  \/ InitFromMicrophone(1)
  \/ GrantResolves(1)
  \/ GrantDenied(1)
  \/ \E el \in AudioElements : InitFromAudioElement(1, el)
  \/ DisposeCall(1)
  \/ \E m \in LifecyclePolls : PollFeatures(1, m, MinBeatInterval + 1)

SpecLifecycle == LcInit /\ [][LcNext]_vars

\* C12: a getFeatures() call on an analyzer that is not initialized returns
\* the all-zero silent frame (bpm 120, beat false, silence true) and leaves
\* the beat detector's energy window, BPM window and last-beat time as they were.
C12_SilentWhenUninitialized ==
  (auLast.op = "getFeatures" /\ ~auLast.wasInitialized) =>
    /\ anFrame = getEmptyFeatures
    /\ auInstances[auLast.inst].detector = auLast.detectorBefore

\* C12 witness: an analyzer that was initialized and polled, then disposed,
\* is polled again: the frame is the silent one, the energy window is kept.
C12_Witness ==
  /\ auLast.op = "getFeatures"
  /\ ~auLast.wasInitialized
  /\ auLast.detectorBefore.energyHistory # <<>>
  /\ auHeap.contexts[auInstances[auLast.inst].audioContext].state = "closed"
  /\ anFrame = getEmptyFeatures

\* C13 as stated: dispose() leaves initialized = false, and no context is
\* closed twice and no source or analyser node disconnected twice.
C13_DisposeIdempotent ==
  /\ auLast.op = "dispose" => ~auInstances[auLast.inst].isInitialized
  /\ \A c \in 1..Len(auHeap.contexts) : auHeap.contexts[c].closes <= 1
  /\ \A n \in 1..Len(auHeap.sources) : auHeap.sources[n].disconnects <= 1
  /\ \A n \in 1..Len(auHeap.analysers) : auHeap.analysers[n].disconnects <= 1

\* C14 as stated: a second initFromAudioElement() on one analyzer is rejected
\* and leaves its audio context, source node and initialized flag unchanged.
C14_AlreadyConnected ==
  (auLast.op = "initFromAudioElement" /\ auLast.second) =>
    /\ auLast.failed
    /\ auInstances[auLast.inst].audioContext = auLast.before.audioContext
    /\ auInstances[auLast.inst].source = auLast.before.source
    /\ auInstances[auLast.inst].isInitialized = auLast.before.isInitialized

\* ------------------------------------------------------------------------
\* useAudio(): start, stop and the analysis loop
\* ------------------------------------------------------------------------
MaxStarts == 2
MaxFrames == 2
\* Milliseconds between two animation frames
FrameInterval == 16

AudioInit ==
  /\ AuIdle
  /\ MpIdle
  /\ AnIdle
  /\ OthersIdle

\* What one pass of analyze() reads and writes
LoopState ==
  [analyzer |-> IF auAnalyzerRef = 0 THEN NewAnalyzer ELSE auInstances[auAnalyzerRef],
   frame |-> anFrame, calls |-> anCalls, history |-> auHistory,
   current |-> smCurrent, target |-> smTarget, count |-> smCount, repeat |-> smRepeat,
   published |-> stFeatures, emotion |-> stEmotion]

\* The frames getFeatures() can return within the first 200 ms, before the
\* beat detector can report anything, and detectEmotion(adjustedFeatures) for
\* each of them under the default audioSensitivity
LoopFrames == {AssembleFeatures(m, [bpm |-> <<120, 1>>, beat |-> FALSE]) : m \in LifecyclePolls}
                 \cup {getEmptyFeatures}
LoopEmotion ==
  [f \in LoopFrames |->
     AsEmotionState(detectEmotion(ApplySensitivity(f, DefaultAudioSensitivity)))]

\* The rest of analyze() once getFeatures() returned r, and once the smoother
\* was given rawEmotion and returned smoothedEmotion
PublishEmotion(st, r, rawEmotion, smoothedEmotion) ==
  [analyzer |-> r.analyzer, frame |-> r.frame, calls |-> st.calls + 1,
   history |-> IF st.history + 1 > 30 THEN 30 ELSE st.history + 1,
   current |-> smoothedEmotion, target |-> rawEmotion, count |-> st.count + 1,
   repeat |-> IF st.count > 0 /\ rawEmotion = st.target THEN st.repeat + 1 ELSE 1,
   published |-> ApplySensitivity(r.frame, DefaultAudioSensitivity),
   emotion |-> smoothedEmotion]
Publish(st, r) ==
  PublishEmotion(st, r, LoopEmotion[r.frame],
                 SmootherUpdated(st.current, LoopEmotion[r.frame], R(15, 100)))

\* analyze() with an initialized analyzer in analyzerRef, the analyser node
\* delivering poll m
analyze(st, m, now) == Publish(st, getFeatures(st.analyzer, m, now))

\* The scheduled callbacks of one animation frame, run one after the other
RECURSIVE RunCallbacks(_, _, _, _)
RunCallbacks(n, st, m, now) ==
  IF n = 0 THEN st ELSE RunCallbacks(n - 1, analyze(st, m, now), m, now)

\* startMicrophone() up to its await: a new analyzer replaces analyzerRef
StartMicrophone ==
  /\ Len(auInstances) < MaxStarts
  /\ auInstances' = Append(auInstances, [NewAnalyzer EXCEPT !.awaiting = TRUE])
  /\ auAnalyzerRef' = Len(auInstances) + 1
  /\ auLast' = [op |-> "startMicrophone", inst |-> Len(auInstances) + 1]
  /\ UNCHANGED <<mpVars, auHeap, auChains, auFrameRef, auStarted, stIsListening, auHistory,
                 auFrames, anVars, restVars>>

\* The permission is granted: initFromMicrophone() finishes on the analyzer
\* it was called on, then setIsListening(true) and startAnalysis()
MicrophoneStarted(i) ==
  /\ auInstances[i].awaiting
  /\ LET r == MicrophoneGranted(auInstances[i], auHeap)
     IN  /\ auInstances' = [auInstances EXCEPT ![i] = r.analyzer]
         /\ auHeap' = r.heap
  /\ stIsListening' = TRUE
  /\ auStarted' = auStarted + 1
  /\ auChains' = auChains \cup {auStarted + 1}
  /\ auFrameRef' = auStarted + 1
  /\ auLast' = [op |-> "granted", inst |-> i,
                disposedWhileAwaiting |-> auInstances[i].disposedWhileAwaiting]
  /\ UNCHANGED <<mpVars, auAnalyzerRef, auHistory, auFrames, anVars, restVars>>

\* The permission is refused: the catch block runs setIsListening(false)
MicrophoneRefused(i) ==
  /\ auInstances[i].awaiting
  /\ auInstances' = [auInstances EXCEPT ![i].awaiting = FALSE]
  /\ stIsListening' = FALSE
  /\ auLast' = [op |-> "denied", inst |-> i]
  /\ UNCHANGED <<mpVars, auHeap, auAnalyzerRef, auChains, auFrameRef, auStarted, auHistory,
                 auFrames, anVars, restVars>>

\* startFromFile(audioElement): initFromAudioElement() has no await of its
\* own, so the call and its continuation run without another handler between
StartFromFile(audioElement) ==
  /\ Len(auInstances) < MaxStarts
  /\ LET r == initFromAudioElement(NewAnalyzer, auHeap, audioElement)
     IN  /\ auInstances' = Append(auInstances, r.analyzer)
         /\ auHeap' = r.heap
         /\ stIsListening' = ~r.failed
         /\ auStarted' = IF r.failed THEN auStarted ELSE auStarted + 1
         /\ auChains' = IF r.failed THEN auChains ELSE auChains \cup {auStarted + 1}
         /\ auFrameRef' = IF r.failed THEN auFrameRef ELSE auStarted + 1
         /\ auLast' = [op |-> "startFromFile", inst |-> Len(auInstances) + 1,
                       failed |-> r.failed]
  /\ auAnalyzerRef' = Len(auInstances) + 1
  /\ UNCHANGED <<mpVars, auHistory, auFrames, anVars, restVars>>

\* stop()
Stop ==
  /\ auChains' = IF auFrameRef # 0 THEN auChains \ {auFrameRef} ELSE auChains
  /\ IF auAnalyzerRef # 0
     THEN LET r == dispose(auInstances[auAnalyzerRef], auHeap)
          IN  /\ auInstances' = [auInstances EXCEPT ![auAnalyzerRef] = r.analyzer]
              /\ auHeap' = r.heap
     ELSE UNCHANGED <<auInstances, auHeap>>
  /\ auAnalyzerRef' = 0
  /\ stIsListening' = FALSE
  /\ stFeatures' = DEFAULT_AUDIO_FEATURES
  /\ auHistory' = 0
  /\ auLast' = [op |-> "stop", inst |-> auAnalyzerRef]
  /\ UNCHANGED <<mpVars, auFrameRef, auStarted, auFrames, anVars, lsVars, emoVars, smVars,
                 mapOptions, mapSlots, mapOutput, mapNow, mapCount, gVars>>

\* One animation frame: every scheduled analyze() callback runs, in the
\* order they were scheduled, and schedules itself again
AnimationFrame(m) ==
  /\ auChains # {}
  /\ auFrames < MaxFrames
  /\ auFrames' = auFrames + 1
  /\ auFrameRef' = CHOOSE c \in auChains : \A d \in auChains : d <= c
  /\ anNow' = anNow + FrameInterval
  /\ IF auAnalyzerRef # 0 /\ auInstances[auAnalyzerRef].isInitialized
     THEN /\ anCalls + Cardinality(auChains) <= MaxCalls
          /\ \E st \in {RunCallbacks(Cardinality(auChains), LoopState, m, anNow')} :
                 /\ auInstances' = [auInstances EXCEPT ![auAnalyzerRef] = st.analyzer]
                 /\ anFrame' = st.frame
                 /\ anCalls' = st.calls
                 /\ auHistory' = st.history
                 /\ smCurrent' = st.current
                 /\ smTarget' = st.target
                 /\ smCount' = st.count
                 /\ smRepeat' = st.repeat
                 /\ stFeatures' = st.published
                 /\ stEmotion' = st.emotion
          /\ auLast' = [op |-> "frame", inst |-> auAnalyzerRef,
                        passes |-> Cardinality(auChains)]
     ELSE /\ anCalls' = anCalls
          /\ auLast' = [op |-> "frame", inst |-> 0, passes |-> 0]
          /\ UNCHANGED <<auInstances, anFrame, auHistory, smCurrent, smTarget, smCount,
                         smRepeat, stFeatures, stEmotion>>
  /\ UNCHANGED <<mpVars, auHeap, auAnalyzerRef, auChains, auStarted, stIsListening,
                 anInitialized, anDetector, beatLog, lsVars, emoVars, smFactor,
                 mapOptions, mapSlots, mapOutput, mapNow, mapCount,
                 stSensitivity, gRefs, gCalls, gAnalyses, gLast>>

AudioNext ==
  \/ StartMicrophone
  \/ \E i \in 1..Len(auInstances) : MicrophoneStarted(i)
  \/ \E i \in 1..Len(auInstances) : MicrophoneRefused(i)
  \/ \E el \in AudioElements : StartFromFile(el)
  \/ Stop
  \/ \E m \in LifecyclePolls : AnimationFrame(m)

SpecAudio == AudioInit /\ [][AudioNext]_vars

\* The analyzers that hold live audio resources
LiveAnalyzers == {i \in 1..Len(auInstances) : HoldsLiveAudio(auInstances[i], auHeap)}

\* C17 as stated: at most one AudioAnalyzer holds an open audio context with
\* a connected source at any time.
C17_SingleOwner == Cardinality(LiveAnalyzers) <= 1

\* C18 as stated: when dispose() ran on an analyzer while its
\* initFromMicrophone() was awaiting the grant, then once the grant has
\* resolved the analyzer is not initialized, owns no audio context and no
\* source, and isListening is false.
C18_DisposedStaysDown ==
  (auLast.op = "granted" /\ auLast.disposedWhileAwaiting) =>
    /\ ~auInstances[auLast.inst].isInitialized
    /\ auInstances[auLast.inst].audioContext = 0
    /\ auInstances[auLast.inst].source = 0
    /\ ~stIsListening

\* C19 as stated: at most one analysis-loop callback is scheduled at any
\* time, no animation frame runs analyze() more than once, and right after
\* stop() none is scheduled.
C19_SingleLoop ==
  /\ Cardinality(auChains) <= 1
  /\ auLast.op = "frame" => auLast.passes <= 1
  /\ auLast.op = "stop" => auChains = {}

\* ------------------------------------------------------------------------
\* MultiplayerProvider: the WebSocket connection and its reconnect timer
\* (components/MultiplayerGarden.tsx)
\*
\* A socket is its readyState; "CLOSING" is a socket whose close() was called
\* and whose close event has not been delivered yet.  A reconnect timer and a
\* ping interval carry the index of the socket whose handler created them.
\* ------------------------------------------------------------------------
MaxSockets == 3

MpInit ==
  /\ MpIdle
  /\ AuIdle
  /\ AnIdle
  /\ OthersIdle

\* The body of connect(serverUrl): nothing if wsRef holds an open socket,
\* otherwise a new WebSocket stored in wsRef
connect ==
  IF mpWsRef # 0 /\ mpSockets[mpWsRef] = "OPEN"
  THEN UNCHANGED <<mpSockets, mpWsRef>>
  ELSE /\ mpSockets' = Append(mpSockets, "CONNECTING")
       /\ mpWsRef' = Len(mpSockets) + 1

\* ws.onclose of socket i, with the socket's new readyState already set
onclose(i) ==
  /\ mpConnected' = FALSE
  /\ mpIntervals' = mpIntervals \ {mpPingRef}
  /\ mpTimers' = mpTimers \cup {i}
  /\ mpReconnectRef' = i
  /\ UNCHANGED <<mpWsRef, mpPingRef, mpLast>>

\* The application calls actions.connect(serverUrl)
Connect ==
  /\ Len(mpSockets) < MaxSockets
  /\ connect
  /\ mpLast' = [op |-> "connect", sockets |-> Len(mpSockets')]
  /\ UNCHANGED <<mpTimers, mpReconnectRef, mpIntervals, mpPingRef, mpConnected,
                 auVars, anVars, restVars>>

\* The 3000 ms reconnect timer t expires: connect(serverUrl)
ReconnectTimeout(t) ==
  /\ t \in mpTimers
  /\ Len(mpSockets) < MaxSockets
  /\ mpTimers' = mpTimers \ {t}
  /\ connect
  /\ UNCHANGED <<mpReconnectRef, mpIntervals, mpPingRef, mpConnected, mpLast,
                 auVars, anVars, restVars>>

\* ws.onopen of socket i
OnOpen(i) ==
  /\ mpSockets[i] = "CONNECTING"
  /\ mpSockets' = [mpSockets EXCEPT ![i] = "OPEN"]
  /\ mpConnected' = TRUE
  /\ mpPingRef' = i
  /\ mpIntervals' = mpIntervals \cup {i}
  /\ UNCHANGED <<mpWsRef, mpTimers, mpReconnectRef, mpLast, auVars, anVars, restVars>>

\* The server or the network ends socket i: its close event is delivered
ConnectionLost(i) ==
  /\ mpSockets[i] \in {"CONNECTING", "OPEN"}
  /\ mpSockets' = [mpSockets EXCEPT ![i] = "CLOSED"]
  /\ onclose(i)
  /\ UNCHANGED <<auVars, anVars, restVars>>

\* The close event of a socket that close() was called on is delivered
CloseEvent(i) ==
  /\ mpSockets[i] = "CLOSING"
  /\ mpSockets' = [mpSockets EXCEPT ![i] = "CLOSED"]
  /\ onclose(i)
  /\ UNCHANGED <<auVars, anVars, restVars>>

\* The application calls actions.disconnect()
Disconnect ==
  /\ mpTimers' = mpTimers \ {mpReconnectRef}
  /\ mpIntervals' = mpIntervals \ {mpPingRef}
  /\ mpSockets' = IF mpWsRef # 0 /\ mpSockets[mpWsRef] \in {"CONNECTING", "OPEN"}
                  THEN [mpSockets EXCEPT ![mpWsRef] = "CLOSING"]
                  ELSE mpSockets
  /\ mpWsRef' = 0
  /\ mpConnected' = FALSE
  /\ mpLast' = [op |-> "disconnect", sockets |-> Len(mpSockets)]
  /\ UNCHANGED <<mpReconnectRef, mpPingRef, auVars, anVars, restVars>>

MpNext ==
  \/ Connect
  \/ Disconnect
  \/ \E i \in 1..Len(mpSockets) : OnOpen(i)
  \/ \E i \in 1..Len(mpSockets) : ConnectionLost(i)
  \/ \E i \in 1..Len(mpSockets) : CloseEvent(i)
  \/ \E t \in mpTimers : ReconnectTimeout(t)

SpecMultiplayer == MpInit /\ [][MpNext]_vars

\* C30 as stated: while disconnect() is the latest call the application made,
\* no WebSocket has been constructed since that call and isConnected is
\* false.
C30_StaysDisconnected ==
  mpLast.op = "disconnect" => (Len(mpSockets) = mpLast.sockets /\ ~mpConnected)

Init == LsInit

Next == Interpret \/ Generate

Spec == Init /\ [][Next]_vars
====
